---- MODULE Spec2Model ----
(***************************************************************************)
(* Model of the dataset charting code of the Nova data assistant frontend: *)
(* the Chart component (chart data transformer), the DataVisualizer        *)
(* component (recommendations, render validity, auto-select effect), the   *)
(* DataDashboard state that feeds it, and the CorrelationMatrix and        *)
(* StatisticalInsights components.                                         *)
(*                                                                         *)
(* JavaScript numbers are modelled in fixed point: the integer n stands    *)
(* for the number n / Unit, so that fractional data and the 2-decimal      *)
(* formatting of toFixed(2) are part of the model.  A JavaScript value     *)
(* (a cell of the dataset, a Map key, a series name) is a record           *)
(* [k, n, s]: its kind, its numeric payload and its string payload.        *)
(***************************************************************************)
EXTENDS Integers, Sequences, FiniteSets, TLC

VARIABLES
    data,               \* Chart/DataVisualizer prop `data`: the rows of the dataset
    columnTypes,        \* prop `columnTypes`: column name -> type name
    numericColumns,     \* prop `numericColumns`
    categoricalColumns, \* prop `categoricalColumns`
    type,               \* the active chart type (DataDashboard.visualizationType)
    selectedColumns,    \* the column selection (DataDashboard.selectedColumns)
    hasOnSelect,        \* whether the parent passes an onSelectColumns callback
    effectPending,      \* the auto-select effect is scheduled (a dependency changed)
    effectCalls,        \* number of callback calls the last effect run made
    prevSelected,       \* the selection the last effect run started from
    chartData,          \* Chart.chartData of the last render
    pieComputed,        \* Chart.pieComputed of the last render
    correlations,       \* CorrelationMatrix.correlations of the last render
    columnStats,        \* StatisticalInsights: getColumnStats of every numeric column
    qualityIndicators,  \* StatisticalInsights: completeness, uniqueness of every column
    renderError,        \* Chart: the last render threw an exception
    dataInfo,           \* DataQualityView prop `dataInfo`
    normalizedCompleteness, \* DataQualityView.normalizedCompleteness
    completenessData,   \* DataQualityView.completenessData
    isSpeaking,         \* useTextToSpeech state `isSpeaking`
    error,              \* useTextToSpeech state `error`
    synthRef,           \* useTextToSpeech synthRef.current: an utterance, 0 for null
    utterances,         \* window.speechSynthesis: the utterances and their progress
    datasetInfo,        \* DataDashboard state `datasetInfo`: a dataset, 0 for null
    isLoading,          \* DataDashboard state `isLoading`
    activeTab,          \* DataDashboard state `activeTab`
    loadedDataset,      \* the last argument of the onDatasetLoaded callback
    requests,           \* the upload requests in flight: request -> file
    pc                  \* "props": not rendered yet, "rendered": Chart has rendered

vars == << data, columnTypes, numericColumns, categoricalColumns, type,
           selectedColumns, hasOnSelect, effectPending, effectCalls,
           prevSelected, chartData, pieComputed, correlations, columnStats,
           qualityIndicators, renderError, dataInfo, normalizedCompleteness,
           completenessData, isSpeaking, error, synthRef, utterances, datasetInfo,
           isLoading, activeTab, loadedDataset, requests, pc >>

chartVars == << chartData, pieComputed, renderError >>
propVars == << data, columnTypes, numericColumns, categoricalColumns >>
effectVars == << hasOnSelect, effectPending, effectCalls, prevSelected >>
insightVars == << correlations, columnStats, qualityIndicators >>
qualityVars == << dataInfo, normalizedCompleteness, completenessData >>
speechVars == << isSpeaking, error, synthRef, utterances >>
uploadVars == << datasetInfo, isLoading, activeTab, loadedDataset, requests >>
panelVars == << qualityVars, speechVars, uploadVars >>

-----------------------------------------------------------------------------
(* JavaScript values *)

Unit == 10 * 10 * 10            \* fixed-point scale: 1.0 is Unit

Num(n) == [k |-> "number", n |-> n, s |-> ""]
NaN == [k |-> "NaN", n |-> 0, s |-> ""]
Str(s) == [k |-> "string", n |-> 0, s |-> s]
Bool(b) == [k |-> "boolean", n |-> IF b THEN 1 ELSE 0, s |-> ""]
Null == [k |-> "null", n |-> 0, s |-> ""]
Undefined == [k |-> "undefined", n |-> 0, s |-> ""]

Int1(i) == Num(i * Unit)        \* the JavaScript integer i

\* The strings of the model that Number() parses to a finite number.
NumericStrings == [s \in {"", "1", "2", "3"} |->
                     CASE s = "" -> 0 [] s = "1" -> Unit [] s = "2" -> 2 * Unit
                       [] s = "3" -> 3 * Unit]

\* Number(v)
ToNumber(v) ==
    CASE v.k = "number" -> v
      [] v.k = "NaN" -> NaN
      [] v.k = "string" -> IF v.s \in DOMAIN NumericStrings
                           THEN Num(NumericStrings[v.s]) ELSE NaN
      [] v.k = "boolean" -> Num(v.n * Unit)
      [] v.k = "null" -> Num(0)
      [] OTHER -> NaN

\* isFinite(v) for a value that is already a number
IsFinite(v) == v.k = "number"

\* row[col]: undefined when the row has no such property
Get(row, col) == IF col \in DOMAIN row THEN row[col] ELSE Undefined

\* columnTypes[col]
TypeOf(ct, col) == IF col \in DOMAIN ct THEN ct[col] ELSE "undefined"

Min2(a, b) == IF a < b THEN a ELSE b

SeqSet(seq) == {seq[i] : i \in 1..Len(seq)}

\* Array.prototype.includes
Includes(seq, x) == \E i \in 1..Len(seq) : seq[i] = x

\* Array.prototype.slice(0, n)
Slice0(seq, n) == SubSeq(seq, 1, Min2(n, Len(seq)))

\* Array.prototype.sort with the comparator (a, b) => b.v - a.v: the sort is
\* stable, so an element goes after every element whose v is >= its own.
InsertDesc(sorted, x) ==
    LET before == Cardinality({i \in 1..Len(sorted) : sorted[i].v >= x.v})
    IN SubSeq(sorted, 1, before) \o <<x>> \o SubSeq(sorted, before + 1, Len(sorted))

RECURSIVE SortDescFrom(_, _, _)
SortDescFrom(seq, i, sorted) ==
    IF i > Len(seq) THEN sorted
    ELSE SortDescFrom(seq, i + 1, InsertDesc(sorted, seq[i]))

SortDesc(seq) == SortDescFrom(seq, 1, <<>>)

\* arr.reduce((sum, r) => sum + r.value, 0) from element i on
RECURSIVE SumValues(_, _)
SumValues(arr, i) == IF i > Len(arr) THEN 0 ELSE arr[i].value + SumValues(arr, i + 1)

-----------------------------------------------------------------------------
(* Chart.chartData, bar over category -> numeric *)

BarTopN == 10
BarMaxRows == 50
MaxPoints == 1000
IndexSentinel == "__index__"

\* columns.slice(1).filter(c => columnTypes[c] === 'number')
BarNumericCols(cols, ct) ==
    SelectSeq(SubSeq(cols, 2, Len(cols)), LAMBDA c : TypeOf(ct, c) = "number")

\* index of the Map entry of key, 0 when absent (Map keys compare by SameValueZero)
MapIndex(agg, key) ==
    IF \E i \in 1..Len(agg) : agg[i].key = key
    THEN CHOOSE i \in 1..Len(agg) : agg[i].key = key
    ELSE 0

\* the inner loop over numericCols: obj[numCol] = (obj[numCol] || 0) + (finite ? val : 0)
RECURSIVE BarAddCols(_, _, _, _)
BarAddCols(obj, row, numCols, j) ==
    IF j > Len(numCols) THEN obj
    ELSE LET numCol == numCols[j]
             prevRaw == IF numCol \in DOMAIN obj THEN obj[numCol] ELSE Undefined
             prev == IF prevRaw.k = "number" /\ prevRaw.n # 0 THEN prevRaw.n ELSE 0
             val == ToNumber(Get(row, numCol))
             add == IF IsFinite(val) THEN val.n ELSE 0
             upd == [c \in (DOMAIN obj) \cup {numCol} |->
                        IF c = numCol THEN Num(prev + add) ELSE obj[c]]
         IN BarAddCols(upd, row, numCols, j + 1)

\* the loop over the rows, filling aggMap (before row i the Map holds fewer
\* than i entries: the second test never holds, it makes the evaluation of
\* the Map strict at every step)
RECURSIVE BarAggregate(_, _, _, _, _)
BarAggregate(rows, categoryCol, numCols, i, agg) ==
    IF i > Len(rows) \/ Len(agg) >= i THEN agg
    ELSE LET row == rows[i]
             key == Get(row, categoryCol)
             at == MapIndex(agg, key)
             agg1 == IF at = 0
                     THEN Append(agg, [key |-> key, obj |-> [c \in {categoryCol} |-> key]])
                     ELSE agg
             at1 == IF at = 0 THEN Len(agg1) ELSE at
             agg2 == [agg1 EXCEPT ![at1].obj = BarAddCols(@, row, numCols, 1)]
         IN BarAggregate(rows, categoryCol, numCols, i + 1, agg2)

\* (b[firstNum] || 0): the sort key of an aggregated object
BarSortKey(obj, firstNum) ==
    IF firstNum \in DOMAIN obj /\ obj[firstNum].k = "number" THEN obj[firstNum].n ELSE 0

\* the aggregated objects sorted by the first numeric column, descending
BarSorted(rows, cols, ct) ==
    LET categoryCol == cols[1]
        numCols == BarNumericCols(cols, ct)
        agg == BarAggregate(rows, categoryCol, numCols, 1, <<>>)
        keyed == [i \in 1..Len(agg) |->
                     [v |-> BarSortKey(agg[i].obj, numCols[1]), e |-> agg[i].obj]]
        arr == SortDesc(keyed)
    IN [i \in 1..Len(arr) |-> arr[i].e]

\* mutant: the groups after the tenth are collapsed into 'Others' as for pie
BarCategoryDataOthers(rows, cols, ct) ==
    LET arr == BarSorted(rows, cols, ct)
        numCol == BarNumericCols(cols, ct)[1]
        rest == SubSeq(arr, BarTopN + 1, Len(arr))
        restKeyed == [i \in 1..Len(rest) |-> [value |-> BarSortKey(rest[i], numCol)]]
    IN IF Len(arr) > BarTopN
       THEN Append(Slice0(arr, BarTopN),
                   [c \in {cols[1], numCol} |->
                       IF c = numCol THEN Num(SumValues(restKeyed, 1)) ELSE Str("Others")])
       ELSE arr

\* arr.slice(0, 10)
BarCategoryData(rows, cols, ct) == Slice0(BarSorted(rows, cols, ct), BarTopN)

\* Chart.chartData, bar over a single numeric column:
\* data.slice(0, 50).map((row, i) => ({ index: i + 1, [col]: Number(row[col]) }))
\* (in the object literal the later property wins when col is 'index')
BarSingleData(rows, cols) ==
    LET col == cols[1]
        head == Slice0(rows, BarMaxRows)
    IN [i \in 1..Len(head) |->
          [p \in {"index", col} |->
              IF p = col THEN ToNumber(Get(head[i], col)) ELSE Int1(i)]]

-----------------------------------------------------------------------------
(* Chart.chartData, scatter *)

LoopBlock == 8 * 5      \* the scatter loop is evaluated in blocks of this many steps

\* mutant: the index sentinel yields the 0-based loop counter
ScatterCoordZeroBased(rows, key, i) ==
    IF key = IndexSentinel THEN Int1(i) ELSE ToNumber(Get(rows[i + 1], key))

\* one step of the loop body: the coordinate of row i (0-based) for a key
ScatterCoord(rows, key, i) ==
    IF key = IndexSentinel THEN Int1(i + 1) ELSE ToNumber(Get(rows[i + 1], key))

\* for (let i = 0; i < rows.length && out.length < maxPoints; i++) { ... }
\* run for at most fuel iterations from (i, out); yields the pair <<i, out>>
RECURSIVE ScatterLoop(_, _, _, _, _, _)
ScatterLoop(rows, sXKey, sYKey, i, out, fuel) ==
    IF fuel > 0 /\ i < Len(rows) /\ Len(out) < MaxPoints
    THEN LET xRaw == ScatterCoord(rows, sXKey, i)
             yRaw == ScatterCoord(rows, sYKey, i)
             point == [p \in {sXKey, sYKey} |-> IF p = sYKey THEN yRaw ELSE xRaw]
             out1 == IF IsFinite(xRaw) /\ IsFinite(yRaw) THEN Append(out, point) ELSE out
         IN ScatterLoop(rows, sXKey, sYKey, i + 1, out1, fuel - 1)
    ELSE << i, out >>

RECURSIVE ScatterFrom(_, _, _, _, _)
ScatterFrom(rows, sXKey, sYKey, i, out) ==
    IF i < Len(rows) /\ Len(out) < MaxPoints
    THEN LET r == ScatterLoop(rows, sXKey, sYKey, i, out, LoopBlock)
         IN ScatterFrom(rows, sXKey, sYKey, r[1], r[2])
    ELSE out

ScatterData(rows, cols) == ScatterFrom(rows, cols[1], cols[2], 0, <<>>)

-----------------------------------------------------------------------------
(* Chart.pieComputed *)

PieTopN == 8
PieBins == 6
SampleRows == 50
SampleMin == 5
NoCol == ""             \* an undefined column (falsy, like the empty name)

\* isNumericCol(col)
IsNumericCol(rows, ct, col) ==
    IF col = NoCol THEN FALSE
    ELSE IF TypeOf(ct, col) = "number" THEN TRUE
    ELSE LET head == Slice0(rows, SampleRows)
             sample == {i \in 1..Len(head) : IsFinite(ToNumber(Get(head[i], col)))}
         IN Cardinality(sample) >= Min2(SampleMin, Len(rows))

\* cols.find(pred), given pred for every element of cols: the first element
\* satisfying it, NoCol when none
FindCol(cols, pred) ==
    IF \E i \in 1..Len(cols) : pred[i]
    THEN cols[CHOOSE i \in 1..Len(cols) : pred[i] /\ \A j \in 1..(i - 1) : ~pred[j]]
    ELSE NoCol

\* the role decision: the category column and the value column
PieRoles(rows, columns, ct) ==
    LET cols == Slice0(columns, 2)
        cat0 == FindCol(cols, [i \in 1..Len(cols) |-> ~IsNumericCol(rows, ct, cols[i])])
        val0 == FindCol(cols, [i \in 1..Len(cols) |->
                                 cols[i] # cat0 /\ IsNumericCol(rows, ct, cols[i])])
        bothNumeric == cat0 = NoCol /\ Len(cols) > 0
    IN [categoryCol |-> IF bothNumeric THEN cols[1] ELSE cat0,
        valueCol |-> IF bothNumeric
                     THEN (IF Len(cols) >= 2 THEN cols[2] ELSE NoCol)
                     ELSE val0]

\* two decimal digits
Digits2(h) == ToString(h \div 10) \o ToString(h % 10)

\* x.toFixed(2) for the number p / q (q > 0): round half away from zero to
\* hundredths, keep the sign of a negative number
ToFixed2(p, q) ==
    LET a == IF p < 0 THEN -p ELSE p
        h == (2 * a * 100 + q) \div (2 * q)
    IN (IF p < 0 THEN "-" ELSE "") \o ToString(h \div 100) \o "." \o Digits2(h % 100)

\* `${n}` for a finite number
RECURSIVE StripZeros(_, _)
StripZeros(f, width) ==
    IF f % 10 = 0 /\ width > 1 THEN StripZeros(f \div 10, width - 1)
    ELSE IF width = 3 THEN ToString(f \div 100) \o Digits2(f % 100)
    ELSE IF width = 2 THEN Digits2(f)
    ELSE ToString(f)

NumberToString(n) ==
    LET a == IF n < 0 THEN -n ELSE n
    IN (IF n < 0 THEN "-" ELSE "") \o ToString(a \div Unit) \o
       (IF a % Unit = 0 THEN "" ELSE "." \o StripZeros(a % Unit, 3))

SetMin(S) == CHOOSE x \in S : \A y \in S : x <= y
SetMax(S) == CHOOSE x \in S : \A y \in S : x >= y

\* mutant: the index is not clamped to the last bin
BinIndexUnclamped(v, min, max, bins) == ((v - min) * bins) \div (max - min)

\* the bin index of the finite number v: Math.min(bins - 1, Math.floor((v - min) / step))
BinIndex(v, min, max, bins) == Min2(bins - 1, ((v - min) * bins) \div (max - min))

\* toBinLabel(values, bins)(v): the label of the value v
BinLabel(values, bins, v) ==
    LET nums == {values[i].n : i \in {j \in 1..Len(values) : IsFinite(values[j])}}
    IN IF nums = {} THEN Str("N/A")
       ELSE LET min == SetMin(nums)
                max == SetMax(nums)
            IN IF min = max THEN Str(NumberToString(min))
               ELSE IF ~IsFinite(v) THEN Str("N/A")
               ELSE LET idx == BinIndex(v.n, min, max, bins)
                        \* start and end in units of 1 / (bins * Unit)
                        start == bins * min + idx * (max - min)
                        end == IF idx = bins - 1 THEN bins * max ELSE start + (max - min)
                        \* the separator stands for the source's " <en dash> "
                    IN Str(ToFixed2(start, bins * Unit) \o " - " \o ToFixed2(end, bins * Unit))

\* the key of a row in the aggregation Map
PieKey(rows, categoryCol, catIsNumeric, catValues, row) ==
    IF catIsNumeric
    THEN BinLabel(catValues, PieBins, ToNumber(ToNumber(Get(row, categoryCol))))
    ELSE LET rawKey == Get(row, categoryCol)
         IN IF rawKey.k \in {"null", "undefined"} THEN Str("N/A") ELSE rawKey

PieIndex(agg, key) ==
    IF \E i \in 1..Len(agg) : agg[i].name = key
    THEN CHOOSE i \in 1..Len(agg) : agg[i].name = key
    ELSE 0

\* the loop over the rows, filling `aggregated`
RECURSIVE PieAggregate(_, _, _, _, _, _, _)
PieAggregate(rows, categoryCol, valueCol, catIsNumeric, catValues, i, agg) ==
    IF i > Len(rows) THEN agg
    ELSE LET row == rows[i]
             key == PieKey(rows, categoryCol, catIsNumeric, catValues, row)
             at == PieIndex(agg, key)
             agg1 == IF at = 0 THEN Append(agg, [name |-> key, value |-> 0]) ELSE agg
             at1 == IF at = 0 THEN Len(agg1) ELSE at
             v == ToNumber(Get(row, valueCol))
             add == IF valueCol # NoCol
                    THEN (IF IsFinite(v) THEN v.n ELSE 0)
                    ELSE Unit
         IN PieAggregate(rows, categoryCol, valueCol, catIsNumeric, catValues, i + 1,
                         [agg1 EXCEPT ![at1].value = @ + add])

\* mutant: the groups after the eighth are dropped as for bar
PieCollapseDrop(aggregated) ==
    LET keyed == [i \in 1..Len(aggregated) |->
                     [v |-> aggregated[i].value, e |-> aggregated[i]]]
        sorted == SortDesc(keyed)
    IN Slice0([i \in 1..Len(sorted) |-> sorted[i].e], PieTopN)

\* sort descending, keep the top 8 and push 'Others'
PieCollapse(aggregated) ==
    LET keyed == [i \in 1..Len(aggregated) |->
                     [v |-> aggregated[i].value, e |-> aggregated[i]]]
        sorted == SortDesc(keyed)
        arr == [i \in 1..Len(sorted) |-> sorted[i].e]
    IN IF Len(arr) > PieTopN
       THEN Append(SubSeq(arr, 1, PieTopN),
                   [name |-> Str("Others"),
                    value |-> SumValues(SubSeq(arr, PieTopN + 1, Len(arr)), 1)])
       ELSE arr

\* the aggregation Map of a pie chart before sorting and collapsing
PieAggregated(rows, columns, ct) ==
    LET roles == PieRoles(rows, columns, ct)
        catIsNumeric == IsNumericCol(rows, ct, roles.categoryCol)
        catValues == [i \in 1..Len(rows) |-> ToNumber(Get(rows[i], roles.categoryCol))]
    IN PieAggregate(rows, roles.categoryCol, roles.valueCol, catIsNumeric, catValues,
                    1, <<>>)

PieComputed(rows, chartType, columns, ct) ==
    IF chartType # "pie" \/ Len(rows) = 0 \/ Len(columns) = 0
    THEN [data |-> <<>>,
          category |-> IF Len(columns) >= 1 THEN columns[1] ELSE "Category",
          value |-> IF Len(columns) >= 2 THEN columns[2] ELSE "Value"]
    ELSE LET roles == PieRoles(rows, columns, ct)
             catIsNumeric == IsNumericCol(rows, ct, roles.categoryCol)
         IN [data |-> PieCollapse(PieAggregated(rows, columns, ct)),
             category |-> IF catIsNumeric THEN roles.categoryCol \o " (binned)"
                          ELSE roles.categoryCol,
             value |-> IF roles.valueCol # NoCol THEN roles.valueCol ELSE "count"]

-----------------------------------------------------------------------------
(* Chart: one render computes pieComputed and chartData *)

ChartData(rows, chartType, columns, ct) ==
    IF chartType = "pie" THEN PieComputed(rows, chartType, columns, ct).data
    ELSE IF chartType = "scatter" /\ Len(columns) >= 2 THEN ScatterData(rows, columns)
    ELSE IF chartType = "bar" /\ Len(columns) >= 2
            /\ TypeOf(ct, columns[1]) # "number"
            /\ Len(BarNumericCols(columns, ct)) > 0
         THEN BarCategoryData(rows, columns, ct)
    ELSE IF chartType = "bar" /\ Len(columns) = 1 /\ TypeOf(ct, columns[1]) = "number"
         THEN BarSingleData(rows, columns)
    ELSE rows

\* renderChart() throws: in the pie branch entry.name.toLowerCase() is
\* evaluated for every entry of chartData, a TypeError when the name is not a
\* string.  renderChart() is called in Chart's own render, outside the
\* subtree of the ErrorBoundary that Chart returns, so the exception leaves
\* Chart.
RenderThrows(chartType, columns, series) ==
    /\ Len(columns) > 0
    /\ chartType = "pie"
    /\ \E i \in 1..Len(series) : series[i].name.k # "string"

-----------------------------------------------------------------------------
(* The components that are not mounted in a specification keep their *)
(* initial state.                                                    *)

\* no DataQualityView element
QualityIdle ==
    /\ dataInfo = Null
    /\ normalizedCompleteness = Undefined
    /\ completenessData = Undefined

\* useTextToSpeech: useState(false), useState(''), useRef(null), nothing queued
SpeechIdle ==
    /\ isSpeaking = FALSE
    /\ error = ""
    /\ synthRef = 0
    /\ utterances = <<>>

\* DataDashboard: useState(null), useState(false), useState('overview')
UploadIdle ==
    /\ datasetInfo = 0
    /\ isLoading = FALSE
    /\ activeTab = "overview"
    /\ loadedDataset = 0
    /\ requests = <<>>

-----------------------------------------------------------------------------
(* Datasets of the model: three columns, each filled by repeating a pattern *)

MaxCats == 12           \* the largest number of distinct category values
SmallRows == 13         \* datasets of 0..SmallRows rows are all enumerated
OverCap == 2            \* and row counts up to this many rows beyond a cap

CatNames == << "N", "S", "E", "W", "C5", "C6", "C7", "C8", "C9", "C10", "C11",
               "C12", "C13", "C14", "C15", "C16" >>

\* the first k category names, repeated
CatCycle(k) == [i \in 1..k |-> Str(CatNames[i])]

CatCycleSizes == {1, 2, 3, PieTopN, PieTopN + 1, BarTopN, BarTopN + 1, MaxCats}

CatSpecials ==
    { << Null, Str("N"), Null >>,
      << Str("1"), Str("2"), Str("1"), Str("N") >>,
      << Str("1"), Str("3"), Str("1") >>,
      << Bool(TRUE), Bool(FALSE) >>,
      << Null, Null, Null, Null, Null, Str("N"), Str("S") >> }

CatPatterns == {CatCycle(k) : k \in CatCycleSizes} \cup CatSpecials

\* further category columns of the pie datasets: mixed kinds of cells, a
\* column that is entirely null, a category that is called 'Others'
PieSpecials ==
    { << Bool(TRUE), Str("N"), Str("S") >>,
      << Int1(1), Str("N"), Str("S") >>,
      << Null >>,
      << Str("Others") >> \o CatCycle(PieTopN + 1) }

SparsePeriod == 2 * MaxPoints
NumPatterns ==
    { << Int1(10), Int1(20), Int1(5) >>,
      << Int1(1), Int1(2), Int1(3), Int1(4), Int1(5) >>,
      << Num(0), Num(2), Num(10) >>,
      << Int1(3), Str("abc"), Null, Int1(0 - 5) >>,
      << Int1(7) >>,
      << Str("abc") >>,
      [i \in 1..SparsePeriod |-> IF i = 2 THEN Str("abc") ELSE Int1(i % 7)] }

Cyc(pat, i) == pat[((i - 1) % Len(pat)) + 1]

\* n rows; the column "index" holds the numeric pattern shifted by one row
DatasetOf(n, catPat, numPat) ==
    [i \in 1..n |->
        [c \in {"region", "rev", "index"} |->
            CASE c = "region" -> Cyc(catPat, i)
              [] c = "rev" -> Cyc(numPat, i)
              [] c = "index" -> Cyc(numPat, i + 1)]]

\* column_types as the backend reports them, and the prop's default {}
DatasetTypes == [c \in {"region", "rev", "index"} |->
                    IF c = "region" THEN "string" ELSE "number"]
NoTypes == [c \in {} |-> "undefined"]

ColumnNames == {"region", "rev", "index", IndexSentinel}

\* the `columns` prop of Chart: at most two columns
ColumnChoices ==
    {<<>>} \cup {<<a>> : a \in ColumnNames} \cup {<<a, b>> : a, b \in ColumnNames}

RowCounts(cap) == (0..SmallRows) \cup ((cap - 1)..(cap + OverCap))

NoPie == [data |-> <<>>, category |-> "Category", value |-> "Value"]

\* the props of one Chart element; nothing rendered yet
InitChart(chartType, rowCounts, catPats, numPats, typeMaps) ==
    /\ \E n \in rowCounts, catPat \in catPats, numPat \in numPats :
          data = DatasetOf(n, catPat, numPat)
    /\ columnTypes \in typeMaps
    /\ numericColumns = << "rev", "index" >>
    /\ categoricalColumns = << "region" >>
    /\ type = chartType
    /\ selectedColumns \in ColumnChoices
    /\ hasOnSelect = FALSE
    /\ effectPending = FALSE
    /\ effectCalls = 0
    /\ prevSelected = <<>>
    /\ chartData = <<>>
    /\ pieComputed = NoPie
    /\ correlations = Undefined
    /\ columnStats = Undefined
    /\ qualityIndicators = Undefined
    /\ renderError = FALSE
    /\ QualityIdle /\ SpeechIdle /\ UploadIdle
    /\ pc = "props"

\* Chart renders: pieComputed and chartData are computed from the props
RenderChart ==
    /\ pc = "props"
    /\ pieComputed' = PieComputed(data, type, selectedColumns, columnTypes)
    /\ chartData' = ChartData(data, type, selectedColumns, columnTypes)
    /\ renderError' = RenderThrows(type, selectedColumns,
                                   ChartData(data, type, selectedColumns, columnTypes))
    /\ pc' = "rendered"
    /\ UNCHANGED << propVars, type, selectedColumns, effectVars, insightVars, panelVars >>

NextChart == RenderChart

InitBar == InitChart("bar", RowCounts(BarMaxRows), CatPatterns, NumPatterns,
                     {DatasetTypes, NoTypes})
SpecBar == InitBar /\ [][NextChart]_vars

InitScatter == InitChart("scatter", (0..3) \cup ((MaxPoints - 1)..(MaxPoints + OverCap)),
                         {CatCycle(2)}, NumPatterns, {DatasetTypes})
SpecScatter == InitScatter /\ [][NextChart]_vars

InitPie == InitChart("pie", 0..SmallRows, CatPatterns \cup PieSpecials, NumPatterns,
                     {DatasetTypes, NoTypes})
SpecPie == InitPie /\ [][NextChart]_vars

-----------------------------------------------------------------------------
(* DataVisualizer: render validity, recommendations, auto-select effect *)

MaxRecs == 12
ChartTypes == {"bar", "scatter", "pie"}

\* isNumeric(col)
IsNumeric(ct, col) == col = IndexSentinel \/ TypeOf(ct, col) = "number"

\* canRenderSelected for the selection sel and the chart type t
CanRenderSelected(sel, t, ct) ==
    IF t = "bar"
    THEN IF Len(sel) = 1 THEN IsNumeric(ct, sel[1])
         ELSE IF Len(sel) >= 2
              THEN /\ TypeOf(ct, sel[1]) # "number"
                   /\ \E i \in 2..Len(sel) : IsNumeric(ct, sel[i])
              ELSE FALSE
    ELSE IF t = "scatter"
         THEN Len(sel) >= 2 /\ IsNumeric(ct, sel[1]) /\ IsNumeric(ct, sel[2])
    ELSE IF t = "pie" THEN Len(sel) >= 1
    ELSE FALSE

\* for (const n of numericColumns) rec.push({ cols: [c, n] }), from element j on
RECURSIVE PushPairs(_, _, _, _)
PushPairs(c, num, j, rec) ==
    IF j > Len(num) THEN rec ELSE PushPairs(c, num, j + 1, Append(rec, << c, num[j] >>))

\* for (const n of numericColumns) rec.push({ cols: [n] })
PushSingles(num, rec) == rec \o [j \in 1..Len(num) |-> << num[j] >>]

\* mutant: the numeric column comes first in a bar pair
RECURSIVE RecBarLoopSwapped(_, _, _, _)
RecBarLoopSwapped(cat, num, i, rec) ==
    IF i > Len(cat) THEN rec
    ELSE RecBarLoopSwapped(cat, num, i + 1,
                           rec \o [j \in 1..Len(num) |-> << num[j], cat[i] >>])

\* rec.bar: for (const c of categoricalColumns) for (const n of numericColumns)
RECURSIVE RecBarLoop(_, _, _, _)
RecBarLoop(cat, num, i, rec) ==
    IF i > Len(cat) THEN rec
    ELSE RecBarLoop(cat, num, i + 1, PushPairs(cat[i], num, 1, rec))

RecBarAll(cat, num) ==
    LET rec == RecBarLoop(cat, num, 1, <<>>)
    IN IF Len(rec) = 0 THEN PushSingles(num, rec) ELSE rec

\* rec.scatter: for (i) for (j = i + 1; ...) push [numericColumns[i], numericColumns[j]]
RECURSIVE RecScatterInner(_, _, _, _)
RecScatterInner(num, i, j, rec) ==
    IF j > Len(num) THEN rec
    ELSE RecScatterInner(num, i, j + 1, Append(rec, << num[i], num[j] >>))

\* mutant: the inner loop starts at j = i, pairing a column with itself
RECURSIVE RecScatterLoopSelf(_, _, _)
RecScatterLoopSelf(num, i, rec) ==
    IF i > Len(num) THEN rec
    ELSE RecScatterLoopSelf(num, i + 1, RecScatterInner(num, i, i, rec))

RECURSIVE RecScatterLoop(_, _, _)
RecScatterLoop(num, i, rec) ==
    IF i > Len(num) THEN rec
    ELSE RecScatterLoop(num, i + 1, RecScatterInner(num, i, i + 1, rec))

RecScatterAll(num) ==
    LET rec == RecScatterLoop(num, 1, <<>>)
    IN IF Len(rec) = 0 /\ Len(num) = 1 THEN << << num[1], IndexSentinel >> >> ELSE rec

\* mutant: the single-column 'count' entry of a categorical column is missing
RECURSIVE RecPieLoopNoCount(_, _, _, _)
RecPieLoopNoCount(cat, num, i, rec) ==
    IF i > Len(cat) THEN rec
    ELSE RecPieLoopNoCount(cat, num, i + 1, PushPairs(cat[i], num, 1, rec))

\* rec.pie: for (const c of categoricalColumns) { push [c]; for (n) push [c, n] }
RECURSIVE RecPieLoop(_, _, _, _)
RecPieLoop(cat, num, i, rec) ==
    IF i > Len(cat) THEN rec
    ELSE RecPieLoop(cat, num, i + 1, PushPairs(cat[i], num, 1, Append(rec, << cat[i] >>)))

RecPieAll(cat, num) ==
    LET rec == RecPieLoop(cat, num, 1, <<>>)
    IN IF Len(rec) = 0 THEN PushSingles(num, rec) ELSE rec

\* the lists before the cut to 12 entries (the cols of every entry)
RecommendedAll(t, cat, num) ==
    CASE t = "bar" -> RecBarAll(cat, num)
      [] t = "scatter" -> RecScatterAll(num)
      [] t = "pie" -> RecPieAll(cat, num)
      [] OTHER -> <<>>

\* mutant: the lists are returned without the cut
RecommendedUncapped(t, cat, num) == RecommendedAll(t, cat, num)

\* recommendedByType[t]
RecommendedByType(t, cat, num) == Slice0(RecommendedAll(t, cat, num), MaxRecs)

\* mutant: only the first recommendation counts as a match
MatchesFirstRecommendation(sel, recList) == Len(recList) > 0 /\ recList[1] = sel

\* recList.some(r => arraysEqual(sel, r.cols))
MatchesARecommendation(sel, recList) == \E i \in 1..Len(recList) : recList[i] = sel

NeedsDefault(sel, t, ct, recList) ==
    \/ Len(sel) = 0
    \/ ~CanRenderSelected(sel, t, ct)
    \/ ~MatchesARecommendation(sel, recList)

\* DataDashboard.toggleColumnSelection: the state updater of one toggle
ToggleColumn(prev, column) ==
    IF Includes(prev, column)
    THEN SelectSeq(prev, LAMBDA col : col # column)
    ELSE Append(prev, column)

\* list.forEach(c => { if (!other.includes(c)) onToggleColumn(c); }) from element
\* i on; st holds the selection the queued updaters have produced and their count
RECURSIVE ToggleEach(_, _, _, _)
ToggleEach(list, other, i, st) ==
    IF i > Len(list) THEN st
    ELSE ToggleEach(list, other, i + 1,
                    IF ~Includes(other, list[i])
                    THEN [sel |-> ToggleColumn(st.sel, list[i]), calls |-> st.calls + 1]
                    ELSE st)

\* the toggle fallback: remove what is not in target, then add what is missing
ApplyByToggling(sel, target) ==
    ToggleEach(target, sel, 1, ToggleEach(sel, target, 1, [sel |-> sel, calls |-> 0]))

\* mutant: the target is applied without comparing it with the selection
AutoSelectAlways(sel, t, ct, recList, onSelect) ==
    IF NeedsDefault(sel, t, ct, recList) /\ Len(recList) > 0
    THEN IF onSelect THEN [sel |-> recList[1], calls |-> 1]
         ELSE ApplyByToggling(sel, recList[1])
    ELSE [sel |-> sel, calls |-> 0]

\* the body of the auto-select effect: the selection it leaves and the number
\* of callback calls it makes
AutoSelect(sel, t, ct, recList, onSelect) ==
    IF NeedsDefault(sel, t, ct, recList) /\ Len(recList) > 0
    THEN LET target == recList[1]
         IN IF sel # target
            THEN IF onSelect THEN [sel |-> target, calls |-> 1]
                 ELSE ApplyByToggling(sel, target)
            ELSE [sel |-> sel, calls |-> 0]
    ELSE [sel |-> sel, calls |-> 0]

\* hasSelection && canRenderSelected: the Chart of the active type is shown,
\* otherwise the preview grid
ShowsChart ==
    Len(selectedColumns) > 0 /\ CanRenderSelected(selectedColumns, type, columnTypes)

Recs(t) == RecommendedByType(t, categoricalColumns, numericColumns)

\* the effect runs after a render in which one of its dependencies changed
AutoSelectEffect ==
    /\ effectPending
    /\ LET r == AutoSelect(selectedColumns, type, columnTypes, Recs(type), hasOnSelect)
       IN /\ selectedColumns' = r.sel
          /\ effectCalls' = r.calls
          /\ effectPending' = (r.calls > 0)
    /\ prevSelected' = selectedColumns
    /\ pc' = "effect"
    /\ UNCHANGED << propVars, type, hasOnSelect, chartVars, insightVars, panelVars >>

\* VisualizationTypeSelector: onTypeChange(t) = setVisualizationType(t)
OnTypeChange(t) ==
    /\ ~effectPending
    /\ t # type
    /\ type' = t
    /\ effectPending' = TRUE
    /\ pc' = "event"
    /\ UNCHANGED << propVars, selectedColumns, hasOnSelect, effectCalls, prevSelected,
                    chartVars, insightVars, panelVars >>

\* applyPairSelection(p.cols): a click on recommendation i of the active type
ApplyPairSelection(i) ==
    /\ ~effectPending
    /\ i \in 1..Len(Recs(type))
    /\ LET cols == Recs(type)[i]
           r == IF hasOnSelect THEN [sel |-> cols, calls |-> 1]
                ELSE ApplyByToggling(selectedColumns, cols)
       IN /\ selectedColumns' = r.sel
          /\ effectPending' = (r.calls > 0)
    /\ pc' = "event"
    /\ UNCHANGED << propVars, type, hasOnSelect, effectCalls, prevSelected, chartVars,
                    insightVars, panelVars >>

MaxCatCols == 3         \* the largest number of categorical columns
MaxNumCols == 6         \* the largest number of numeric columns

CatColNames == << "region", "city", "segment", "country" >>
NumColNames == << "rev", "qty", "index", "price", "cost", "age", "tax" >>

\* column_types consistent with the two column lists
TypesFor(cat, num) ==
    [c \in SeqSet(cat) \cup SeqSet(num) |-> IF Includes(num, c) THEN "number" ELSE "string"]

\* the selections of at most two columns over a set of names
Selections(names) ==
    {<<>>} \cup {<< a >> : a \in names} \cup {<< a, b >> : a, b \in names}

\* the props of a mounted DataVisualizer: the column lists of a dataset, with
\* its column_types or the prop's default {}; the parent holds any selection
\* (anySelection) or the empty one
InitVisualizer(onSelect, anySelection) ==
    /\ \E a \in 0..MaxCatCols, b \in 0..MaxNumCols :
          /\ categoricalColumns = SubSeq(CatColNames, 1, a)
          /\ numericColumns = SubSeq(NumColNames, 1, b)
    /\ columnTypes \in {TypesFor(categoricalColumns, numericColumns), NoTypes}
    /\ data = <<>>
    /\ type \in ChartTypes
    /\ selectedColumns \in
          IF anySelection
          THEN Selections(SeqSet(categoricalColumns) \cup SeqSet(numericColumns)
                          \cup {IndexSentinel})
          ELSE {<<>>}
    /\ hasOnSelect = onSelect
    /\ effectPending = TRUE
    /\ effectCalls = 0
    /\ prevSelected = <<>>
    /\ chartData = <<>>
    /\ pieComputed = NoPie
    /\ correlations = Undefined
    /\ columnStats = Undefined
    /\ qualityIndicators = Undefined
    /\ renderError = FALSE
    /\ QualityIdle /\ SpeechIdle /\ UploadIdle
    /\ pc = "mounted"

\* a DataVisualizer whose parent passes onSelectColumns = setSelectedColumns
InitSelect == InitVisualizer(TRUE, TRUE)
NextSelect ==
    \/ AutoSelectEffect
    \/ \E t \in ChartTypes : OnTypeChange(t)
    \/ \E i \in 1..MaxRecs : ApplyPairSelection(i)
SpecSelect == InitSelect /\ [][NextSelect]_vars

\* the DataDashboard wiring: onToggleColumn only, the visualizations tab opens
\* with the empty selection and the type 'bar'; the user switches chart types
InitDash == InitVisualizer(FALSE, FALSE) /\ type = "bar"
NextDash ==
    \/ AutoSelectEffect
    \/ \E t \in ChartTypes : OnTypeChange(t)
SpecDash == InitDash /\ [][NextDash]_vars

MaxSelected == 3        \* the largest number of columns of a hand-built selection

\* the selections of at most n columns over a set of names, in any order and
\* with repetitions
HandBuiltSelections(names, n) == UNION { [1..k -> names] : k \in 0..n }

\* a DataVisualizer whose parent passes onSelectColumns and any array of
\* names as selectedColumns, also names that are not columns of the dataset
InitGate ==
    /\ \E b \in 0..2 :
          /\ categoricalColumns = << "region" >>
          /\ numericColumns = SubSeq(NumColNames, 1, b)
    /\ columnTypes \in {TypesFor(categoricalColumns, numericColumns), NoTypes}
    /\ data = <<>>
    /\ type \in ChartTypes
    /\ selectedColumns \in
          HandBuiltSelections(SeqSet(categoricalColumns) \cup SeqSet(numericColumns)
                              \cup {IndexSentinel, "ghost"}, MaxSelected)
    /\ hasOnSelect = TRUE
    /\ effectPending = TRUE
    /\ effectCalls = 0
    /\ prevSelected = <<>>
    /\ chartData = <<>>
    /\ pieComputed = NoPie
    /\ correlations = Undefined
    /\ columnStats = Undefined
    /\ qualityIndicators = Undefined
    /\ renderError = FALSE
    /\ QualityIdle /\ SpeechIdle /\ UploadIdle
    /\ pc = "mounted"

SpecGate == InitGate /\ [][NextSelect]_vars

-----------------------------------------------------------------------------
(* CorrelationMatrix.correlations *)

Abs(x) == IF x < 0 THEN 0 - x ELSE x
Sign(x) == IF x < 0 THEN 0 - 1 ELSE IF x > 0 THEN 1 ELSE 0

RECURSIVE Gcd(_, _)
Gcd(a, b) == IF b = 0 THEN a ELSE Gcd(b, a % b)

\* A correlation coefficient: the record stands for the number
\* sgn * sqrt(p / q), with p / q in lowest terms, so that two coefficients are
\* the same number exactly when the records are equal; CoefNaN is NaN.
Coef(sgn, p, q) ==
    [k |-> "number", sgn |-> sgn, p |-> p \div Gcd(p, q), q |-> q \div Gcd(p, q)]
CoefNaN == [k |-> "NaN", sgn |-> 0, p |-> 0, q |-> 1]
CoefZero == Coef(0, 0, 1)
CoefOne == Coef(1, 1, 1)

\* a === b on numbers: NaN is not equal to anything, itself included
StrictEquals(a, b) == a.k # "NaN" /\ b.k # "NaN" /\ a = b

\* the numeric columns: those columnTypes calls 'number' or, when it names
\* none, the keys of the first row whose value is not an object (null is one)
\* and converts to a finite number
CorrNumericColumns(rows, ct) ==
    LET typed == {col \in DOMAIN ct : ct[col] = "number"}
        sample == rows[1]
    IN IF typed # {} THEN typed
       ELSE {key \in DOMAIN sample :
                sample[key].k # "null" /\ IsFinite(ToNumber(sample[key]))}

\* data.map(row => Number(row[col])).filter(val => !isNaN(val) && isFinite(val))
FiniteValues(rows, col) ==
    LET nums == [i \in 1..Len(rows) |-> ToNumber(Get(rows[i], col))]
        kept == SelectSeq(nums, LAMBDA val : IsFinite(val))
    IN [i \in 1..Len(kept) |-> kept[i].n]

\* values.reduce((a, b) => a + b, 0) from element i on
RECURSIVE SumFrom(_, _)
SumFrom(values, i) == IF i > Len(values) THEN 0 ELSE values[i] + SumFrom(values, i + 1)

RECURSIVE GcdFrom(_, _)
GcdFrom(values, i) ==
    IF i > Len(values) THEN 0 ELSE Gcd(Abs(values[i]), GcdFrom(values, i + 1))

\* the deviations b - mean of a sample, up to a positive common factor: the
\* mean is sum / n, so n * (b - mean) is the integer n * b - sum, and the
\* greatest common divisor of these integers is divided out.  The factor
\* cancels in covariance / sqrt(variance1 * variance2).
Deviations(values) ==
    LET n == Len(values)
        sum == SumFrom(values, 1)
        scaled == [i \in 1..n |-> n * values[i] - sum]
        g == GcdFrom(scaled, 1)
    IN IF g = 0 THEN scaled ELSE [i \in 1..n |-> scaled[i] \div g]

\* covariance / Math.sqrt(variance1 * variance2) for two samples of one
\* length.  With no value the means are 0 / 0 and the reductions stay at
\* their initial 0; with a zero variance the covariance is 0 as well: in
\* both cases the quotient is 0 / 0, NaN.
Pearson(values1, values2) ==
    LET dev1 == Deviations(values1)
        dev2 == Deviations(values2)
        n == Len(values1)
        variance1 == SumFrom([i \in 1..n |-> dev1[i] * dev1[i]], 1)
        variance2 == SumFrom([i \in 1..n |-> dev2[i] * dev2[i]], 1)
        covariance == SumFrom([i \in 1..n |-> dev1[i] * dev2[i]], 1)
    IN IF variance1 * variance2 = 0 THEN CoefNaN
       ELSE Coef(Sign(covariance), covariance * covariance, variance1 * variance2)

\* correlationMatrix[col1][col2]
CorrelationEntry(rows, col1, col2) ==
    IF col1 = col2 THEN CoefOne
    ELSE LET values1 == FiniteValues(rows, col1)
             values2 == FiniteValues(rows, col2)
         IN IF Len(values1) # Len(values2) THEN CoefZero
            ELSE Pearson(values1, values2)

\* mutant: a single numeric column is enough for a matrix
CorrelationsOneColumn(rows, ct) ==
    IF Len(rows) = 0 THEN Null
    ELSE LET cols == CorrNumericColumns(rows, ct)
         IN IF Cardinality(cols) < 1 THEN Null
            ELSE [col1 \in cols |-> [col2 \in cols |-> CorrelationEntry(rows, col1, col2)]]

\* the memoised value `correlations`: null or the matrix
Correlations(rows, ct) ==
    IF Len(rows) = 0 THEN Null
    ELSE LET cols == CorrNumericColumns(rows, ct)
         IN IF Cardinality(cols) < 2 THEN Null
            ELSE [col1 \in cols |-> [col2 \in cols |-> CorrelationEntry(rows, col1, col2)]]

\* if (!correlations): the message is rendered instead of the table
ShowsCorrelationFallback == correlations = Null

\* CorrelationMatrix renders
RenderCorrelationMatrix ==
    /\ pc = "props"
    /\ correlations' = Correlations(data, columnTypes)
    /\ pc' = "correlated"
    /\ UNCHANGED << propVars, type, selectedColumns, effectVars, chartVars, columnStats,
                    qualityIndicators, panelVars >>

MaxCorrRows == 4        \* the largest number of rows of a correlated dataset

\* the columns of the correlated datasets, each filled by repeating a pattern
CorrPatterns ==
    { << Int1(1) >>,
      << Int1(2), Int1(3), Int1(4) >>,
      << Int1(1), Int1(2), Str("abc"), Int1(4) >>,
      << Int1(1), Str("abc"), Int1(2), Int1(3) >>,
      << Int1(3), Int1(1), Str("abc"), Int1(2) >>,
      << Int1(4), Int1(1), Int1(3) >>,
      << Null, Int1(2), Int1(5) >>,
      << Str("abc") >> }

CorrDataset(n, revPat, qtyPat, pricePat, regionPat) ==
    [i \in 1..n |->
        [c \in {"rev", "qty", "price", "region"} |->
            CASE c = "rev" -> Cyc(revPat, i)
              [] c = "qty" -> Cyc(qtyPat, i)
              [] c = "price" -> Cyc(pricePat, i)
              [] c = "region" -> Cyc(regionPat, i)]]

\* column_types naming three, two or one numeric column, and the default {}
CorrTypes ==
    { [c \in {"rev", "qty", "price", "region"} |->
          IF c = "region" THEN "string" ELSE "number"],
      [c \in {"rev", "qty", "region"} |-> IF c = "region" THEN "string" ELSE "number"],
      [c \in {"rev", "region"} |-> IF c = "region" THEN "string" ELSE "number"],
      NoTypes }

\* the props of one CorrelationMatrix element; nothing rendered yet
InitCorr ==
    /\ \E n \in 0..MaxCorrRows, revPat \in CorrPatterns, qtyPat \in CorrPatterns,
          pricePat \in CorrPatterns, regionPat \in {<< Str("N") >>, << Str("1") >>} :
          data = CorrDataset(n, revPat, qtyPat, pricePat, regionPat)
    /\ columnTypes \in CorrTypes
    /\ numericColumns = <<>>
    /\ categoricalColumns = <<>>
    /\ type = "bar"
    /\ selectedColumns = <<>>
    /\ hasOnSelect = FALSE
    /\ effectPending = FALSE
    /\ effectCalls = 0
    /\ prevSelected = <<>>
    /\ chartData = <<>>
    /\ pieComputed = NoPie
    /\ correlations = Undefined
    /\ columnStats = Undefined
    /\ qualityIndicators = Undefined
    /\ renderError = FALSE
    /\ QualityIdle /\ SpeechIdle /\ UploadIdle
    /\ pc = "props"

NextCorr == RenderCorrelationMatrix
SpecCorr == InitCorr /\ [][NextCorr]_vars

-----------------------------------------------------------------------------
(* StatisticalInsights.getColumnStats *)

\* a quotient p / q of integers, q > 0, in lowest terms
Frac(p, q) == [p |-> p \div Gcd(Abs(p), q), q |-> q \div Gcd(Abs(p), q)]

\* Math.sqrt(x) of the quotient x
Sqrt(x) == [sqrtOf |-> x]

\* data.map(row => Number(row[columnName])).filter(val => !isNaN(val))
StatValues(rows, columnName) ==
    LET nums == [i \in 1..Len(rows) |-> ToNumber(Get(rows[i], columnName))]
        kept == SelectSeq(nums, LAMBDA val : val.k # "NaN")
    IN [i \in 1..Len(kept) |-> kept[i].n]

\* Array.prototype.sort with the comparator (a, b) => a - b (stable)
InsertAsc(sorted, x) ==
    LET before == Cardinality({i \in 1..Len(sorted) : sorted[i] <= x})
    IN SubSeq(sorted, 1, before) \o <<x>> \o SubSeq(sorted, before + 1, Len(sorted))

RECURSIVE SortAscFrom(_, _, _)
SortAscFrom(values, i, sorted) ==
    IF i > Len(values) THEN sorted
    ELSE SortAscFrom(values, i + 1, InsertAsc(sorted, values[i]))

\* mutant: the values are used in row order, unsorted
SortAscUnsorted(values) == values

\* [...values].sort((a, b) => a - b)
SortAsc(values) == SortAscFrom(values, 1, <<>>)

\* mutant: the lower of the two middle positions
MedianIndexLower(n) == (n - 1) \div 2

\* Math.floor(sorted.length / 2), Math.floor(sorted.length / 4) and
\* Math.floor(3 * sorted.length / 4): 0-based indices into sorted
MedianIndex(n) == n \div 2
Q1Index(n) == n \div 4
Q3Index(n) == (3 * n) \div 4

\* the statistics of a non-empty list of values, null for the empty list
StatsOf(values) ==
    IF Len(values) = 0 THEN Null
    ELSE LET n == Len(values)
             sorted == SortAsc(values)
             sum == SumFrom(values, 1)
             min == SetMin(SeqSet(values))
             max == SetMax(SeqSet(values))
             q1 == sorted[Q1Index(n) + 1]
             q3 == sorted[Q3Index(n) + 1]
             \* sum of (b - mean)^2 = sum of (n * b - sum)^2 / n^2
             squares == SumFrom([i \in 1..n |-> (n * values[i] - sum) * (n * values[i] - sum)], 1)
         IN [mean |-> Frac(sum, n),
             median |-> sorted[MedianIndex(n) + 1],
             min |-> min,
             max |-> max,
             q1 |-> q1,
             q3 |-> q3,
             stdDev |-> Sqrt(Frac(squares, n * n * n)),
             range |-> max - min,
             iqr |-> q3 - q1]

\* getColumnStats(columnName)
GetColumnStats(rows, columnName) == StatsOf(StatValues(rows, columnName))

\* the numeric columns: Object.entries(columnTypes) with type 'number'
StatNumericColumns(ct) == {col \in DOMAIN ct : ct[col] = "number"}

\* (count / total) * 100 with count <= total: 0 / 0 is NaN
PercentOf(count, total) == IF total = 0 THEN NaN ELSE Frac(count * 100, total)

\* one card of the Data Quality Indicators: the share of the rows whose cell
\* is not null, undefined or '', and the number of distinct cells
QualityIndicator(rows, column) ==
    LET nonNullCount == Cardinality({i \in 1..Len(rows) :
                            Get(rows[i], column) \notin {Null, Undefined, Str("")}})
        uniqueCount == Cardinality({Get(rows[i], column) : i \in 1..Len(rows)})
    IN [completeness |-> PercentOf(nonNullCount, Len(rows)),
        uniqueCount |-> uniqueCount,
        uniqueness |-> PercentOf(uniqueCount, Len(rows))]

\* StatisticalInsights renders: getColumnStats of every numeric column and
\* the quality indicators of every column of columnTypes
RenderStatisticalInsights ==
    /\ pc = "props"
    /\ columnStats' = [column \in StatNumericColumns(columnTypes) |->
                          GetColumnStats(data, column)]
    /\ qualityIndicators' = [column \in DOMAIN columnTypes |->
                                 QualityIndicator(data, column)]
    /\ pc' = "insights"
    /\ UNCHANGED << propVars, type, selectedColumns, effectVars, chartVars, correlations,
                    panelVars >>

MaxStatRows == 4        \* the largest number of rows of a summarised dataset

\* the cells of the summarised column
StatCells == { Int1(1), Int1(2), Int1(3), Int1(4), Null, Str(""), Str("abc") }

StatTypes ==
    { [c \in {"rev", "region"} |-> IF c = "region" THEN "string" ELSE "number"],
      [c \in {"rev", "region"} |-> "number"] }

\* the props of one StatisticalInsights element; nothing rendered yet
InitStats ==
    /\ \E n \in 0..MaxStatRows : \E cells \in [1..n -> StatCells] :
          data = [i \in 1..n |-> [c \in {"rev", "region"} |->
                                     IF c = "rev" THEN cells[i] ELSE Str("N")]]
    /\ columnTypes \in StatTypes
    /\ numericColumns = <<>>
    /\ categoricalColumns = <<>>
    /\ type = "bar"
    /\ selectedColumns = <<>>
    /\ hasOnSelect = FALSE
    /\ effectPending = FALSE
    /\ effectCalls = 0
    /\ prevSelected = <<>>
    /\ chartData = <<>>
    /\ pieComputed = NoPie
    /\ correlations = Undefined
    /\ columnStats = Undefined
    /\ qualityIndicators = Undefined
    /\ renderError = FALSE
    /\ QualityIdle /\ SpeechIdle /\ UploadIdle
    /\ pc = "props"

NextStats == RenderStatisticalInsights
SpecStats == InitStats /\ [][NextStats]_vars

-----------------------------------------------------------------------------
(* DataQualityView: normalizedCompleteness and completenessData *)

\* the visualizer and the insight panels are not mounted
VisualizerIdle ==
    /\ data = <<>>
    /\ columnTypes = NoTypes
    /\ numericColumns = <<>>
    /\ categoricalColumns = <<>>
    /\ type = "bar"
    /\ selectedColumns = <<>>
    /\ hasOnSelect = FALSE
    /\ effectPending = FALSE
    /\ effectCalls = 0
    /\ prevSelected = <<>>
    /\ chartData = <<>>
    /\ pieComputed = NoPie
    /\ correlations = Undefined
    /\ columnStats = Undefined
    /\ qualityIndicators = Undefined
    /\ renderError = FALSE

\* A number of the quality report: the record stands for the quotient p / q
\* in lowest terms (q > 0), so that equal numbers are equal records.
Ratio(p, q) == [k |-> "number", p |-> Frac(p, q).p, q |-> Frac(p, q).q]

\* a || b || 0 over numbers and absent fields: 0 and undefined are falsy
OrElse(a, b) == IF a.k = "number" /\ a.p # 0 THEN a ELSE b

\* dataInfo.total_rows || dataInfo.rows || 0
TotalRows(info) == OrElse(info.total_rows, OrElse(info.rows, Ratio(0, 1)))

\* Math.max(0, Math.min(100, x))
Clamp100(x) ==
    IF x.p < 0 THEN Ratio(0, 1)
    ELSE IF x.p > 100 * x.q THEN Ratio(100, 1)
    ELSE x

\* 100 - x
Minus100(x) == Ratio(100 * x.q - x.p, x.q)

\* (missingCount / totalRows) * 100
MissingShare(missingCount, totalRows) ==
    Ratio(missingCount.p * totalRows.q * 100, missingCount.q * totalRows.p)

\* mutant: the derived percentages are not clamped
NormalizedEntryUnclamped(stats, totalRows) ==
    IF stats.score.k = "number"
    THEN [completePct |-> stats.score, missingPct |-> Minus100(stats.score)]
    ELSE IF stats.missing_count.k = "number" /\ totalRows.p > 0
    THEN LET missingPct == MissingShare(stats.missing_count, totalRows)
         IN [completePct |-> Minus100(missingPct), missingPct |-> missingPct]
    ELSE IF stats.missing_percentage.k = "number"
    THEN [completePct |-> Minus100(stats.missing_percentage),
          missingPct |-> stats.missing_percentage]
    ELSE [completePct |-> Ratio(0, 1), missingPct |-> Ratio(0, 1)]

\* the body of the forEach over dq.completeness: { completePct, missingPct }
\* of one entry
NormalizedEntry(stats, totalRows) ==
    IF stats.score.k = "number"
    THEN LET completePct == Clamp100(stats.score)
         IN [completePct |-> completePct, missingPct |-> Minus100(completePct)]
    ELSE IF stats.missing_count.k = "number" /\ totalRows.p > 0
    THEN LET missingPct == Clamp100(MissingShare(stats.missing_count, totalRows))
         IN [completePct |-> Minus100(missingPct), missingPct |-> missingPct]
    ELSE IF stats.missing_percentage.k = "number"
    THEN LET missingPct == Clamp100(stats.missing_percentage)
         IN [completePct |-> Minus100(missingPct), missingPct |-> missingPct]
    ELSE [completePct |-> Ratio(0, 1), missingPct |-> Ratio(0, 1)]

\* normalizedCompleteness: empty unless dq.completeness is an object
NormalizedCompleteness(info) ==
    IF info.completeness = Undefined THEN << >>
    ELSE [col \in DOMAIN info.completeness |->
             NormalizedEntry(info.completeness[col], TotalRows(info))]

\* Number(x.toFixed(2)): x rounded to hundredths, half away from zero
RoundTo2(x) ==
    LET a == Abs(x.p)
        h == (2 * a * 100 + x.q) \div (2 * x.q)
    IN Ratio(Sign(x.p) * h, 100)

\* Number.isFinite(x) ? Number(x.toFixed(2)) : 0
FiniteTo2(x) == IF x.k = "number" THEN RoundTo2(x) ELSE Ratio(0, 1)

\* completenessData: one chart row per entry of normalizedCompleteness
CompletenessData(normalized) ==
    [col \in DOMAIN normalized |->
        [completeness |-> FiniteTo2(normalized[col].completePct),
         missing |-> FiniteTo2(normalized[col].missingPct)]]

\* DataQualityView renders; without dataInfo it returns null
RenderDataQualityView ==
    /\ pc = "props"
    /\ IF dataInfo = Null
       THEN UNCHANGED << normalizedCompleteness, completenessData >>
       ELSE /\ normalizedCompleteness' = NormalizedCompleteness(dataInfo)
            /\ completenessData' = CompletenessData(NormalizedCompleteness(dataInfo))
    /\ pc' = "quality"
    /\ UNCHANGED << propVars, type, selectedColumns, effectVars, chartVars, insightVars,
                    dataInfo, speechVars, uploadVars >>

MaxTotalRows == 3       \* the largest total_rows of a quality report

\* the values of a score or missing_percentage field: absent, not a number,
\* below, inside and above the range of a percentage
PercentFields ==
    { Undefined, Str("97"), Ratio(0 - 5, 1), Ratio(0, 1), Ratio(1, 8), Ratio(100, 3),
      Ratio(100, 1), Ratio(150, 1) }

\* the values of a missing_count field, also negative and above total_rows
CountFields ==
    { Undefined, Null } \cup { Ratio(c, 1) : c \in (0 - 1)..(MaxTotalRows + 1) }

\* the entries { score, missing_count, missing_percentage } of dq.completeness
QualityEntries ==
    [score : PercentFields, missing_count : CountFields,
     missing_percentage : {Undefined, Ratio(0 - 10, 1), Ratio(1, 8), Ratio(120, 1)}]

\* the completeness reports: absent, one column, two columns
CompletenessReports ==
    { Undefined }
    \cup { [col \in {"rev"} |-> e] : e \in QualityEntries }
    \cup { [col \in {"rev", "region"} |->
              IF col = "rev" THEN e
              ELSE [score |-> Undefined, missing_count |-> Ratio(1, 1),
                    missing_percentage |-> Undefined]] : e \in QualityEntries }

\* the props of one DataQualityView element: dataInfo with total_rows, rows
\* and data_quality.completeness; nothing rendered yet
InitQuality ==
    /\ VisualizerIdle
    /\ \/ dataInfo = Null
       \/ \E total \in {Undefined} \cup { Ratio(n, 1) : n \in 0..MaxTotalRows },
             rows \in {Undefined, Ratio(2, 1)},
             report \in CompletenessReports :
             dataInfo = [total_rows |-> total, rows |-> rows, completeness |-> report]
    /\ normalizedCompleteness = Undefined
    /\ completenessData = Undefined
    /\ SpeechIdle /\ UploadIdle
    /\ pc = "props"

NextQuality == RenderDataQualityView
SpecQuality == InitQuality /\ [][NextQuality]_vars

-----------------------------------------------------------------------------
(* useTextToSpeech: speak, stopSpeaking and the utterance events *)

MaxUtterances == 3      \* the largest number of speak calls

\* what the hook does not touch
visualizerVars == << propVars, type, selectedColumns, effectVars, chartVars, insightVars >>

\* the utterances that window.speechSynthesis still holds
Live == {"queued", "speaking"}

\* window.speechSynthesis.cancel(): a spoken utterance is interrupted, the
\* queued ones are removed; their events are delivered later
Cancel(us) ==
    [u \in 1..Len(us) |->
        IF us[u] = "speaking" THEN "interrupted"
        ELSE IF us[u] = "queued" THEN "removed"
        ELSE us[u]]

\* speak(text) with a non-empty text in a browser with speech synthesis:
\* cancel when synthRef.current is set, then create the utterance, store it
\* in synthRef.current and hand it to speechSynthesis.speak, which may throw
Speak(throws) ==
    /\ Len(utterances) < MaxUtterances
    /\ LET held == IF synthRef # 0 THEN Cancel(utterances) ELSE utterances
       IN utterances' = Append(held, IF throws THEN "rejected" ELSE "queued")
    /\ synthRef' = Len(utterances) + 1
    /\ IF throws
       THEN error' = "Failed to start text-to-speech" /\ isSpeaking' = FALSE
       ELSE UNCHANGED << error, isSpeaking >>
    /\ pc' = "speak"
    /\ UNCHANGED << visualizerVars, qualityVars, uploadVars >>

\* stopSpeaking()
StopSpeaking ==
    /\ synthRef # 0
    /\ utterances' = Cancel(utterances)
    /\ isSpeaking' = FALSE
    /\ synthRef' = 0
    /\ UNCHANGED error
    /\ pc' = "stop"
    /\ UNCHANGED << visualizerVars, qualityVars, uploadVars >>

\* the engine starts the first queued utterance when it speaks no other:
\* utterance.onstart
OnStart(u) ==
    /\ utterances[u] = "queued"
    /\ \A v \in 1..Len(utterances) :
          /\ utterances[v] # "speaking"
          /\ v < u => utterances[v] # "queued"
    /\ utterances' = [utterances EXCEPT ![u] = "speaking"]
    /\ isSpeaking' = TRUE
    /\ error' = ""
    /\ UNCHANGED synthRef
    /\ pc' = "onstart"
    /\ UNCHANGED << visualizerVars, qualityVars, uploadVars >>

\* utterance.onend: the utterance was spoken to its end, or the end event of
\* an interrupted utterance is delivered
OnEnd(u) ==
    /\ utterances[u] \in {"speaking", "interrupted"}
    /\ utterances' = [utterances EXCEPT ![u] = "done"]
    /\ isSpeaking' = FALSE
    /\ synthRef' = 0
    /\ UNCHANGED error
    /\ pc' = "onend"
    /\ UNCHANGED << visualizerVars, qualityVars, uploadVars >>

\* utterance.onerror: synthesis fails, or the error event ('interrupted',
\* 'canceled') of a cancelled utterance is delivered
OnError(u) ==
    /\ utterances[u] \in {"queued", "speaking", "interrupted", "removed"}
    /\ utterances' = [utterances EXCEPT ![u] = "done"]
    /\ error' = "Speech synthesis error"
    /\ isSpeaking' = FALSE
    /\ synthRef' = 0
    /\ pc' = "onerror"
    /\ UNCHANGED << visualizerVars, qualityVars, uploadVars >>

\* the hook of a mounted component: nothing spoken yet
InitSpeech ==
    /\ VisualizerIdle
    /\ QualityIdle /\ SpeechIdle /\ UploadIdle
    /\ pc = "mounted"

NextSpeech ==
    \/ \E throws \in BOOLEAN : Speak(throws)
    \/ StopSpeaking
    \/ \E u \in 1..Len(utterances) : OnStart(u)
    \/ \E u \in 1..Len(utterances) : OnEnd(u)
    \/ \E u \in 1..Len(utterances) : OnError(u)

SpecSpeech == InitSpeech /\ [][NextSpeech]_vars

-----------------------------------------------------------------------------
(* DataDashboard: uploadFile, its responses, and clearDataset *)

MaxUploads == 3         \* the largest number of uploads started

\* what the upload handlers do not touch
dashboardRest ==
    << propVars, type, effectVars, chartVars, insightVars, qualityVars, speechVars >>

Tabs == {"overview", "visualizations", "quality", "explore"}

\* data.columns of the response to upload number f
UploadColumns(f) == << NumColNames[f], "region" >>

\* some upload request has no response yet
InFlight(reqs) == {r \in 1..Len(reqs) : reqs[r] = "flight"}

\* uploadFile(file) up to the await of fetch, for a CSV or Excel file: the
\* drop zone and the file input exist only while no dataset is held, the
\* drop zone also while isLoading
UploadFile ==
    /\ datasetInfo = 0
    /\ Len(requests) < MaxUploads
    /\ requests' = Append(requests, "flight")
    /\ isLoading' = TRUE
    /\ pc' = "upload"
    /\ UNCHANGED << datasetInfo, activeTab, loadedDataset, selectedColumns, dashboardRest >>

\* the response of request r arrives with data.success: the rest of the try
\* block and the finally block
UploadSuccess(r) ==
    /\ requests[r] = "flight"
    /\ requests' = [requests EXCEPT ![r] = "success"]
    /\ datasetInfo' = r
    /\ selectedColumns' = << UploadColumns(r)[1] >>
    /\ activeTab' = "overview"
    /\ loadedDataset' = r
    /\ isLoading' = FALSE
    /\ pc' = "response"
    /\ UNCHANGED dashboardRest

\* fetch rejects or the response has no data.success: catch and finally
UploadFailure(r) ==
    /\ requests[r] = "flight"
    /\ requests' = [requests EXCEPT ![r] = "failure"]
    /\ isLoading' = FALSE
    /\ pc' = "failed"
    /\ UNCHANGED << datasetInfo, activeTab, loadedDataset, selectedColumns, dashboardRest >>

\* clearDataset(): the button of the dataset panel
ClearDataset ==
    /\ datasetInfo # 0
    /\ datasetInfo' = 0
    /\ selectedColumns' = <<>>
    /\ loadedDataset' = 0
    /\ pc' = "cleared"
    /\ UNCHANGED << requests, isLoading, activeTab, dashboardRest >>

\* DatasetHeader: setActiveTab(tab), shown while a dataset is held
SetActiveTab(tab) ==
    /\ datasetInfo # 0
    /\ tab # activeTab
    /\ activeTab' = tab
    /\ pc' = "tab"
    /\ UNCHANGED << requests, isLoading, datasetInfo, loadedDataset, selectedColumns,
                    dashboardRest >>

\* the dashboard after mounting: no dataset, nothing in flight
InitUpload ==
    /\ VisualizerIdle
    /\ QualityIdle /\ SpeechIdle /\ UploadIdle
    /\ pc = "mounted"

NextUpload ==
    \/ UploadFile
    \/ \E r \in 1..Len(requests) : UploadSuccess(r)
    \/ \E r \in 1..Len(requests) : UploadFailure(r)
    \/ ClearDataset
    \/ \E tab \in Tabs : SetActiveTab(tab)

SpecUpload == InitUpload /\ [][NextUpload]_vars

-----------------------------------------------------------------------------
(* Properties of the chart data transformer *)

Rendered(chartType) == pc = "rendered" /\ type = chartType

\* the contribution of a cell to a sum: its numeric value, 0 when not finite
FiniteOrZero(cell) == IF ToNumber(cell).k = "number" THEN ToNumber(cell).n ELSE 0

\* the sum of column numCol over the rows 1..i whose column catCol holds key
RECURSIVE SumWhere(_, _, _, _)
SumWhere(catCol, key, numCol, i) ==
    IF i = 0 THEN 0
    ELSE (IF Get(data[i], catCol) = key THEN FiniteOrZero(Get(data[i], numCol)) ELSE 0)
         + SumWhere(catCol, key, numCol, i - 1)

RawKeys(catCol) == {Get(data[i], catCol) : i \in 1..Len(data)}

\* the selection is a (categorical column, numeric column) pair
IsCatNumPair ==
    /\ Len(selectedColumns) = 2
    /\ TypeOf(columnTypes, selectedColumns[1]) # "number"
    /\ TypeOf(columnTypes, selectedColumns[2]) = "number"

ExampleRows == DatasetOf(3, CatCycle(2), << Int1(10), Int1(20), Int1(5) >>)

\* C1: a bar chart over (categorical, numeric) holds one entry per raw value
\* of the categorical column, carrying the sum of the numeric column over the
\* rows of that value (a non-finite cell adds 0), in descending order of the
\* sums, cut to the first min(10, number of groups) groups; every entry is a
\* group of the data (no synthetic 'Others' entry), and the dropped groups
\* are not larger than the kept ones.  Rows (N,10),(S,20),(N,5) give
\* [(S,20),(N,15)].
C1_BarTopGroups ==
    (Rendered("bar") /\ IsCatNumPair) =>
        LET c == selectedColumns[1]
            n == selectedColumns[2]
            keys == RawKeys(c)
            out == chartData
        IN /\ Len(out) = Min2(BarTopN, Cardinality(keys))
           /\ \A j \in 1..Len(out) :
                 /\ DOMAIN out[j] = {c, n}
                 /\ out[j][c] \in keys
                 /\ out[j][n] = Num(SumWhere(c, out[j][c], n, Len(data)))
           /\ \A j, k \in 1..Len(out) :
                 j < k => /\ out[j][c] # out[k][c]
                          /\ out[j][n].n >= out[k][n].n
           /\ \A key \in keys :
                 (\A j \in 1..Len(out) : out[j][c] # key) =>
                     SumWhere(c, key, n, Len(data)) <= out[Len(out)][n].n
           /\ (data = ExampleRows /\ selectedColumns = << "region", "rev" >>) =>
                 out = << [region |-> Str("S"), rev |-> Int1(20)],
                          [region |-> Str("N"), rev |-> Int1(15)] >>

\* C1 witness: a rendered (categorical, numeric) bar chart over more than 10
\* groups, cut to 10 entries.
C1_Witness ==
    /\ Rendered("bar") /\ IsCatNumPair
    /\ Cardinality(RawKeys(selectedColumns[1])) > BarTopN
    /\ Len(chartData) = BarTopN

\* the selection is a single numeric column
IsSingleNumeric ==
    /\ Len(selectedColumns) = 1
    /\ TypeOf(columnTypes, selectedColumns[1]) = "number"

\* C4: a bar chart over a single numeric column holds the first min(50, n)
\* rows in order, entry k carrying index k and the numeric value of row k.
C4_BarSingleIndexed ==
    (Rendered("bar") /\ IsSingleNumeric) =>
        LET col == selectedColumns[1]
        IN /\ Len(chartData) = Min2(BarMaxRows, Len(data))
           /\ \A k \in 1..Len(chartData) :
                 /\ chartData[k]["index"] = Int1(k)
                 /\ chartData[k][col] = ToNumber(Get(data[k], col))

\* the coordinate of row i (1-based) for a column of a scatter chart
RowCoord(key, i) == IF key = IndexSentinel THEN Int1(i) ELSE ToNumber(Get(data[i], key))

ValidRow(i) ==
    /\ RowCoord(selectedColumns[1], i).k = "number"
    /\ RowCoord(selectedColumns[2], i).k = "number"

\* the valid rows among lo..hi, in row order
RECURSIVE ValidRowsIn(_, _)
ValidRowsIn(lo, hi) ==
    IF lo > hi THEN <<>>
    ELSE IF lo = hi THEN (IF ValidRow(lo) THEN << lo >> ELSE <<>>)
    ELSE LET mid == (lo + hi) \div 2
         IN ValidRowsIn(lo, mid) \o ValidRowsIn(mid + 1, hi)

\* C3: a scatter chart holds exactly the first min(1000, number of valid rows)
\* valid rows in row order; a coordinate is the row's 1-based position for the
\* index sentinel and the numeric value of the cell otherwise, and a row is
\* valid when both coordinates are finite.
C3_ScatterFirstValid ==
    (Rendered("scatter") /\ Len(selectedColumns) >= 2) =>
        LET valid == ValidRowsIn(1, Len(data))
        IN /\ Len(chartData) = Min2(MaxPoints, Len(valid))
           /\ Len(chartData) <= MaxPoints
           /\ \A k \in 1..Len(chartData) :
                 /\ chartData[k][selectedColumns[1]] = RowCoord(selectedColumns[1], valid[k])
                 /\ chartData[k][selectedColumns[2]] = RowCoord(selectedColumns[2], valid[k])

\* C3 witness: more than 1000 valid rows, row 2 skipped: the output is cut to
\* 1000 points and its second point carries the position 3.
C3_Witness ==
    /\ Rendered("scatter")
    /\ selectedColumns = << "rev", IndexSentinel >>
    /\ Len(data) > MaxPoints
    /\ Len(chartData) = MaxPoints
    /\ ~ValidRow(2)
    /\ chartData[2][IndexSentinel] = Int1(3)

-----------------------------------------------------------------------------
(* Properties of the pie series *)

PieShown == Rendered("pie") /\ Len(data) > 0 /\ Len(selectedColumns) > 0

\* the total a direct aggregation over the source gives: the number of rows
\* when the series counts, the sum of the value column otherwise
RECURSIVE SumColumn(_, _)
SumColumn(col, i) ==
    IF i = 0 THEN 0 ELSE FiniteOrZero(Get(data[i], col)) + SumColumn(col, i - 1)

DirectTotal ==
    IF pieComputed.value = "count" THEN Len(data) * Unit
    ELSE SumColumn(pieComputed.value, Len(data))

Descending(seq) == \A j, k \in 1..Len(seq) : j < k => seq[j].value >= seq[k].value

\* C2: with G aggregated groups, the pie series is all G groups in descending
\* order when G <= 8, and the 8 largest groups in descending order followed by
\* one 'Others' entry holding the sum of the other G - 8 groups when G > 8; the
\* values of the series sum to the total of the aggregated groups, which is
\* the total of a direct aggregation over the source column.
C2_PieTopEightOthers ==
    PieShown =>
        LET agg == PieAggregated(data, selectedColumns, columnTypes)
            G == Len(agg)
            out == pieComputed.data
            top == SubSeq(out, 1, Min2(PieTopN, Len(out)))
            rest == SeqSet(agg) \ SeqSet(top)
        IN /\ G <= PieTopN =>
                 /\ Len(out) = G
                 /\ SeqSet(out) = SeqSet(agg)
                 /\ Descending(out)
           /\ G > PieTopN =>
                 /\ Len(out) = PieTopN + 1
                 /\ SeqSet(top) \subseteq SeqSet(agg)
                 /\ Cardinality(SeqSet(top)) = PieTopN
                 /\ Descending(top)
                 /\ \A r \in rest : r.value <= out[PieTopN].value
                 /\ out[PieTopN + 1].name = Str("Others")
                 /\ out[PieTopN + 1].value = SumValues(agg, 1) - SumValues(top, 1)
           /\ SumValues(out, 1) = SumValues(agg, 1)
           /\ SumValues(out, 1) = DirectTotal

\* C2 witness: a rendered pie of more than 8 groups whose 'Others' entry holds
\* a non-zero remainder.
C2_Witness ==
    /\ PieShown
    /\ Len(PieAggregated(data, selectedColumns, columnTypes)) > PieTopN + 1
    /\ Len(pieComputed.data) = PieTopN + 1
    /\ pieComputed.data[PieTopN + 1].name = Str("Others")
    /\ pieComputed.data[PieTopN + 1].value > 0

\* the name of the group of a raw category value
GroupName(key) == IF key.k \in {"null", "undefined"} THEN Str("N/A") ELSE key

\* the number of rows among 1..i whose column catCol holds key
CountWhere(catCol, key, i) == Cardinality({r \in 1..i : Get(data[r], catCol) = key})

\* the entries of the series that are groups of the data (all but a pushed 'Others')
RealGroups ==
    SubSeq(pieComputed.data, 1, Min2(PieTopN, Len(pieComputed.data)))

IsSingleCategorical ==
    /\ Len(selectedColumns) = 1
    /\ selectedColumns[1] \in DOMAIN columnTypes
    /\ columnTypes[selectedColumns[1]] # "number"

\* C8: in a pie over (categorical, numeric) each group is a raw value of the
\* categorical column and its value is the sum of the numeric column over the
\* rows of that value, the value label being the numeric column's name; in a
\* pie over a single categorical column each group's value is the number of
\* rows of that value and the value label is 'count'.
C8_PieSumOrCount ==
    /\ (PieShown /\ IsCatNumPair /\ selectedColumns[1] \in DOMAIN columnTypes) =>
          LET c == selectedColumns[1]
              n == selectedColumns[2]
          IN /\ pieComputed.value = n
             /\ \A j \in 1..Len(RealGroups) :
                   \E key \in RawKeys(c) :
                      /\ RealGroups[j].name = GroupName(key)
                      /\ RealGroups[j].value = SumWhere(c, key, n, Len(data))
    /\ (PieShown /\ IsSingleCategorical) =>
          LET c == selectedColumns[1]
          IN /\ pieComputed.value = "count"
             /\ \A j \in 1..Len(RealGroups) :
                   \E key \in RawKeys(c) :
                      /\ RealGroups[j].name = GroupName(key)
                      /\ RealGroups[j].value = CountWhere(c, key, Len(data)) * Unit

\* the finite numeric values of the single selected column, by row
ColValue(i) == ToNumber(Get(data[i], selectedColumns[1]))
FiniteRows == {i \in 1..Len(data) : ColValue(i).k = "number"}
ColMin == SetMin({ColValue(i).n : i \in FiniteRows})
ColMax == SetMax({ColValue(i).n : i \in FiniteRows})

\* bin b of the 6 equal-width bins of [ColMin, ColMax], in units of 1/(6*Unit)
BinStart(b) == PieBins * ColMin + b * (ColMax - ColMin)
BinEnd(b) == PieBins * ColMin + (b + 1) * (ColMax - ColMin)

\* the one bin whose interval contains v, the maximum going to the last bin
BinOf(v) ==
    CHOOSE b \in 0..(PieBins - 1) :
        /\ BinStart(b) <= PieBins * v
        /\ \/ PieBins * v < BinEnd(b)
           \/ b = PieBins - 1 /\ PieBins * v = BinEnd(b)

\* the 2-decimal label of bin b
LabelOf(b) ==
    Str(ToFixed2(BinStart(b), PieBins * Unit) \o " - " \o ToFixed2(BinEnd(b), PieBins * Unit))

NonEmptyBins == {BinOf(ColValue(i).n) : i \in FiniteRows}

GroupValue(name) ==
    IF \E j \in 1..Len(pieComputed.data) : pieComputed.data[j].name = name
    THEN (CHOOSE e \in SeqSet(pieComputed.data) : e.name = name).value
    ELSE 0

\* what C9 says of every binned pie, whatever the identity of a group
BinnedCommon ==
    /\ FiniteRows # {} /\ ColMin = ColMax =>
          pieComputed.data =
              << [name |-> Str(NumberToString(ColMin)), value |-> Len(data) * Unit] >>
    /\ FiniteRows # {} /\ ColMin < ColMax =>
          /\ \A i \in FiniteRows :
                LET v == ColValue(i).n
                IN /\ \E b \in 0..(PieBins - 1) :
                         /\ BinStart(b) <= PieBins * v
                         /\ \/ PieBins * v < BinEnd(b)
                            \/ b = PieBins - 1 /\ PieBins * v = BinEnd(b)
                   /\ BinOf(v) = Min2(PieBins - 1,
                                      ((v - ColMin) * PieBins) \div (ColMax - ColMin))
          /\ BinStart(0) = PieBins * ColMin /\ BinEnd(PieBins - 1) = PieBins * ColMax
          /\ GroupValue(Str("N/A")) = (Len(data) - Cardinality(FiniteRows)) * Unit
    /\ SumValues(pieComputed.data, 1) = Len(data) * Unit
    /\ Len(pieComputed.data) <= PieBins + 1
    /\ (data = DatasetOf(5, CatCycle(2), << Int1(1), Int1(2), Int1(3), Int1(4), Int1(5) >>)
        /\ selectedColumns = << "rev" >>) =>
          /\ Len(pieComputed.data) <= PieBins
          /\ SumValues(pieComputed.data, 1) = 5 * Unit

\* C9 as stated: every non-empty bin is a group of its own, whose value is
\* the count of the rows assigned to that bin.
C9_OneGroupPerBin ==
    (PieShown /\ IsSingleNumeric) =>
        /\ BinnedCommon
        /\ FiniteRows # {} /\ ColMin < ColMax =>
              /\ Cardinality({e \in SeqSet(pieComputed.data) : e.name # Str("N/A")})
                    = Cardinality(NonEmptyBins)
              /\ \A b \in NonEmptyBins :
                    GroupValue(LabelOf(b)) =
                        Cardinality({i \in FiniteRows : BinOf(ColValue(i).n) = b}) * Unit

\* C9 amended: a group is identified by the 2-decimal label of its bin, and
\* its value is the count of the rows whose bin carries that label (bins
\* whose labels coincide form one group).
C9_OneGroupPerLabel ==
    (PieShown /\ IsSingleNumeric) =>
        /\ BinnedCommon
        /\ FiniteRows # {} /\ ColMin < ColMax =>
              /\ {e.name : e \in SeqSet(pieComputed.data)} \ {Str("N/A")}
                    = {LabelOf(b) : b \in NonEmptyBins}
              /\ \A b \in NonEmptyBins :
                    GroupValue(LabelOf(b)) =
                        Cardinality({i \in FiniteRows :
                                        LabelOf(BinOf(ColValue(i).n)) = LabelOf(b)}) * Unit

\* C9 witness: a binned pie in which two non-empty bins share one label, the
\* maximum is in the last bin and a non-finite cell is in 'N/A'.
C9_Witness ==
    /\ PieShown /\ IsSingleNumeric
    /\ FiniteRows # {} /\ ColMin < ColMax
    /\ Cardinality({LabelOf(b) : b \in NonEmptyBins}) < Cardinality(NonEmptyBins)
    /\ PieBins - 1 \in NonEmptyBins

-----------------------------------------------------------------------------
(* Properties of the recommendations and of the selection reconciliation *)

\* C5: with an onSelectColumns callback, an effect run replaces the selection
\* by the first recommendation of the active type when the list is not empty
\* and the selection is empty, fails canRenderSelected or equals none of the
\* recommendations; in every other case it leaves the selection unchanged.
C5_ReconcileIff ==
    (pc = "effect" /\ hasOnSelect) =>
        LET recs == Recs(type)
            replace == /\ Len(recs) > 0
                       /\ \/ prevSelected = <<>>
                          \/ ~CanRenderSelected(prevSelected, type, columnTypes)
                          \/ \A i \in 1..Len(recs) : recs[i] # prevSelected
        IN /\ replace => selectedColumns = recs[1]
           /\ ~replace => selectedColumns = prevSelected

\* C5 witness: an effect run that kept a valid selection equal to a
\* recommendation other than the first.
C5_Witness ==
    /\ pc = "effect" /\ hasOnSelect
    /\ selectedColumns = prevSelected
    /\ CanRenderSelected(selectedColumns, type, columnTypes)
    /\ \E i \in 2..Len(Recs(type)) : Recs(type)[i] = selectedColumns
    /\ Recs(type)[1] # selectedColumns

\* C6: in the dashboard wiring, once the effect makes no further call the
\* selection equals a recommendation of the active type, element by element.
C6_ToggleReachesRecommendation ==
    (~hasOnSelect /\ ~effectPending /\ Len(Recs(type)) > 0) =>
        \E i \in 1..Len(Recs(type)) : Recs(type)[i] = selectedColumns

\* C7: the first recommendation of every chart type passes canRenderSelected
\* and names only columns of the dataset or the index sentinel, so that once
\* the effect has settled the chart of the active type is shown.
C7_DefaultRenderable ==
    /\ \A t \in ChartTypes :
          Len(Recs(t)) > 0 =>
              /\ CanRenderSelected(Recs(t)[1], t, columnTypes)
              /\ SeqSet(Recs(t)[1]) \subseteq
                    SeqSet(categoricalColumns) \cup SeqSet(numericColumns)
                       \cup {IndexSentinel}
    /\ (hasOnSelect /\ ~effectPending /\ Len(Recs(type)) > 0) => ShowsChart

\* C10: with at least one categorical and one numeric column the bar list is
\* every (categorical, numeric) pair, categorical first, the categorical
\* columns in the outer loop and the numeric ones in the inner loop, and
\* nothing else; without such a pair it is one single-column entry per
\* numeric column in declaration order (empty without numeric columns).
C10_BarRecommendations ==
    LET C == categoricalColumns
        N == numericColumns
        rec == RecBarAll(C, N)
    IN /\ (Len(C) >= 1 /\ Len(N) >= 1) =>
             /\ Len(rec) = Len(C) * Len(N)
             /\ \A i \in 1..Len(C), j \in 1..Len(N) :
                   rec[(i - 1) * Len(N) + j] = << C[i], N[j] >>
       /\ (Len(C) = 0 \/ Len(N) = 0) =>
             /\ Len(rec) = Len(N)
             /\ \A j \in 1..Len(N) : rec[j] = << N[j] >>

\* C10 witness: several categorical and numeric columns, the effect has
\* applied the first bar recommendation.
C10_Witness ==
    /\ pc = "effect" /\ type = "bar"
    /\ Len(categoricalColumns) >= 2 /\ Len(numericColumns) >= 2
    /\ selectedColumns = << categoricalColumns[1], numericColumns[1] >>
    /\ prevSelected # selectedColumns

\* C11: with k >= 2 numeric columns the scatter list before the cut holds
\* exactly the k(k-1)/2 pairs (numeric[i], numeric[j]) with i < j, each once
\* and none pairing a column with itself; with one numeric column it is the
\* single entry [column, '__index__'], with none it is empty; the index
\* sentinel occurs in an entry only in the one-column case.
C11_ScatterRecommendations ==
    LET N == numericColumns
        k == Len(N)
        rec == RecScatterAll(N)
    IN /\ k >= 2 =>
             /\ 2 * Len(rec) = k * (k - 1)
             /\ \A i \in 1..k, j \in 1..k :
                   i < j => Cardinality({p \in 1..Len(rec) : rec[p] = << N[i], N[j] >>}) = 1
             /\ \A p \in 1..Len(rec) :
                   /\ \E i \in 1..k, j \in 1..k : i < j /\ rec[p] = << N[i], N[j] >>
                   /\ rec[p][1] # rec[p][2]
       /\ k = 1 => rec = << << N[1], "__index__" >> >>
       /\ k = 0 => rec = <<>>
       /\ (\E p \in 1..Len(rec) : Includes(rec[p], "__index__")) => k = 1

\* C11 witness: three or more numeric columns, the effect has applied the
\* first scatter pair.
C11_Witness ==
    /\ pc = "effect" /\ type = "scatter"
    /\ Len(numericColumns) >= 3
    /\ selectedColumns = << numericColumns[1], numericColumns[2] >>
    /\ prevSelected # selectedColumns

\* C12: for each categorical column, in declaration order, the pie list
\* before the cut holds the single-column entry [c] immediately followed by
\* one entry [c, n] per numeric column n; only without a categorical column
\* it is one single-column entry [n] per numeric column.
C12_PieRecommendations ==
    LET C == categoricalColumns
        N == numericColumns
        rec == RecPieAll(C, N)
        block == 1 + Len(N)
    IN /\ Len(C) >= 1 =>
             /\ Len(rec) = Len(C) * block
             /\ \A i \in 1..Len(C) :
                   /\ rec[(i - 1) * block + 1] = << C[i] >>
                   /\ \A j \in 1..Len(N) :
                         rec[(i - 1) * block + 1 + j] = << C[i], N[j] >>
       /\ Len(C) = 0 =>
             /\ Len(rec) = Len(N)
             /\ \A j \in 1..Len(N) : rec[j] = << N[j] >>

\* C12 witness: several categorical and numeric columns, the effect has
\* applied the first pie recommendation, the count of the first category.
C12_Witness ==
    /\ pc = "effect" /\ type = "pie"
    /\ Len(categoricalColumns) >= 2 /\ Len(numericColumns) >= 2
    /\ selectedColumns = << categoricalColumns[1] >>
    /\ prevSelected # selectedColumns

\* C13: for every chart type the list shown to the user has at most 12
\* entries and is the first 12 entries, in order, of the list before the cut.
C13_RecommendationCap ==
    \A t \in ChartTypes :
        LET all == RecommendedAll(t, categoricalColumns, numericColumns)
            shown == Recs(t)
        IN /\ Len(shown) <= 12
           /\ Len(shown) = IF Len(all) < 12 THEN Len(all) ELSE 12
           /\ \A p \in 1..Len(shown) : shown[p] = all[p]

\* C13 witness: the list before the cut is longer than 12 and the user has
\* clicked the twelfth, last shown, recommendation.
C13_Witness ==
    /\ pc = "event"
    /\ Len(RecommendedAll(type, categoricalColumns, numericColumns)) > 12
    /\ Len(Recs(type)) = 12
    /\ selectedColumns = Recs(type)[12]

-----------------------------------------------------------------------------
(* Properties of the correlation matrix *)

\* the numeric columns of the dataset: those column_types calls 'number',
\* or without any such column those whose first cell is a finite number
DatasetNumericColumns ==
    LET typed == {c \in DOMAIN columnTypes : columnTypes[c] = "number"}
    IN IF typed # {} THEN typed
       ELSE IF Len(data) = 0 THEN {}
       ELSE {c \in DOMAIN data[1] :
                data[1][c].k # "null" /\ ToNumber(data[1][c]).k = "number"}

HasMatrix == pc = "correlated" /\ correlations # Null

\* the rows in which both columns hold a finite number, in row order
PairedRows(a, b) ==
    SelectSeq([i \in 1..Len(data) |-> i],
              LAMBDA i : /\ ToNumber(Get(data[i], a)).k = "number"
                         /\ ToNumber(Get(data[i], b)).k = "number")

\* the values of column col in the rows paired for (a, b)
PairedValues(a, b, col) ==
    LET idx == PairedRows(a, b)
    IN [j \in 1..Len(idx) |-> ToNumber(Get(data[idx[j]], col)).n]

ZeroVariance(values) == \A i, j \in 1..Len(values) : values[i] = values[j]

Degenerate(a, b) ==
    \/ Len(PairedRows(a, b)) < 2
    \/ ZeroVariance(PairedValues(a, b, a))
    \/ ZeroVariance(PairedValues(a, b, b))

\* C14: for distinct numeric columns whose paired sample has fewer than 2
\* rows or a column of zero variance the stored coefficient is exactly 0, and
\* no entry of a returned matrix is NaN (for [1,1,1] and [2,3,4] it is 0).
C14_DegenerateIsZero ==
    HasMatrix =>
        \A a \in DOMAIN correlations, b \in DOMAIN correlations :
            /\ correlations[a][b].k # "NaN"
            /\ (a # b /\ Degenerate(a, b)) => correlations[a][b] = CoefZero

\* C15: for distinct numeric columns the stored coefficient is the Pearson
\* coefficient of the rows in which both columns hold a finite number, each
\* value paired with the value of its own row (stated for the samples on
\* which the Pearson coefficient is defined).
C15_PairwiseDeletion ==
    HasMatrix =>
        \A a \in DOMAIN correlations, b \in DOMAIN correlations :
            (a # b /\ ~Degenerate(a, b)) =>
                correlations[a][b] = Pearson(PairedValues(a, b, a), PairedValues(a, b, b))

\* C16: a returned matrix is square over the numeric columns, every diagonal
\* entry equals 1 and matrix[a][b] equals matrix[b][a] for all columns a, b.
C16_SquareSymmetric ==
    HasMatrix =>
        /\ DOMAIN correlations = DatasetNumericColumns
        /\ \A a \in DOMAIN correlations :
              /\ DOMAIN correlations[a] = DOMAIN correlations
              /\ StrictEquals(correlations[a][a], CoefOne)
        /\ \A a \in DOMAIN correlations, b \in DOMAIN correlations :
              StrictEquals(correlations[a][b], correlations[b][a])

\* C17: with zero rows or fewer than 2 numeric columns the result is null and
\* the fallback message is shown; otherwise the result is a full matrix over
\* the numeric columns and the table is shown.
C17_NotApplicable ==
    pc = "correlated" =>
        LET applicable == Len(data) >= 1 /\ Cardinality(DatasetNumericColumns) >= 2
        IN /\ ~applicable => (correlations = Null /\ ShowsCorrelationFallback)
           /\ applicable =>
                 /\ correlations # Null
                 /\ ~ShowsCorrelationFallback
                 /\ DOMAIN correlations = DatasetNumericColumns
                 /\ \A a \in DOMAIN correlations :
                       DOMAIN correlations[a] = DatasetNumericColumns

\* C17 witness: a dataset with rows and a single numeric column, for which
\* the fallback message is shown.
C17_Witness ==
    /\ pc = "correlated"
    /\ Len(data) >= 2
    /\ Cardinality(DatasetNumericColumns) = 1
    /\ correlations = Null
    /\ ShowsCorrelationFallback

-----------------------------------------------------------------------------
(* Properties of the column statistics *)

\* the cells of column c that enter its statistics, as numbers
EnteringCells(c) ==
    {i \in 1..Len(data) : ToNumber(Get(data[i], c)).k # "NaN"}
EnteringValues(c) == {ToNumber(Get(data[i], c)).n : i \in EnteringCells(c)}

\* C18: for every numeric column with at least one value entering the
\* statistics, min <= q1 <= median <= q3 <= max, and q1, median and q3 are
\* each one of the column's values.
C18_QuartileOrder ==
    pc = "insights" =>
        \A c \in DOMAIN columnStats :
            EnteringCells(c) # {} =>
                LET st == columnStats[c]
                IN /\ st # Null
                   /\ st.min <= st.q1 /\ st.q1 <= st.median
                   /\ st.median <= st.q3 /\ st.q3 <= st.max
                   /\ {st.q1, st.median, st.q3} \subseteq EnteringValues(c)

\* C18 witness: a column of four distinct values given out of order, whose
\* quartiles and median are three different values.
C18_Witness ==
    /\ pc = "insights"
    /\ Len(data) = 4
    /\ Cardinality(EnteringValues("rev")) = 4
    /\ data[1].rev.n > data[2].rev.n
    /\ columnStats["rev"] # Null
    /\ columnStats["rev"].min < columnStats["rev"].q1
    /\ columnStats["rev"].q1 < columnStats["rev"].median
    /\ columnStats["rev"].median < columnStats["rev"].q3

\* the value at 1-based position k of the sorted values entering the
\* statistics of column c: fewer than k values are below it and at least k
\* values are not above it
CountBelow(c, v) == Cardinality({i \in EnteringCells(c) : ToNumber(Get(data[i], c)).n < v})
CountUpTo(c, v) == Cardinality({i \in EnteringCells(c) : ToNumber(Get(data[i], c)).n <= v})
SortedAt(c, k) ==
    CHOOSE v \in EnteringValues(c) : CountBelow(c, v) < k /\ k <= CountUpTo(c, v)

IsMissing(cell) == cell.k \in {"null", "undefined"} \/ (cell.k = "string" /\ cell.s = "")

\* the non-missing numeric cells of column c, in row order
NonMissingValues(c) ==
    LET idx == SelectSeq([i \in 1..Len(data) |-> i],
                         LAMBDA i : /\ ~IsMissing(Get(data[i], c))
                                    /\ ToNumber(Get(data[i], c)).k = "number")
    IN [j \in 1..Len(idx) |-> ToNumber(Get(data[idx[j]], c)).n]

\* C20: the statistics of a numeric column are those of its non-missing
\* numeric cells: missing cells contribute no value to mean, standard
\* deviation, min, max, median and quartiles, and a column whose cells are
\* all missing yields null.
C20_MissingExcluded ==
    pc = "insights" =>
        \A c \in DOMAIN columnStats :
            LET values == NonMissingValues(c)
                st == columnStats[c]
            IN IF Len(values) = 0 THEN st = Null
               ELSE /\ st # Null
                    /\ st.mean = Frac(SumFrom(values, 1), Len(values))
                    /\ st.min = SetMin(SeqSet(values))
                    /\ st.max = SetMax(SeqSet(values))
                    /\ st = StatsOf(values)

-----------------------------------------------------------------------------
(* Properties of the chart render *)

\* C23: for a dataset whose cells are numbers, strings, booleans or null and
\* a selection that is one of the recommendations of the chart type,
\* computing and rendering the chart does not throw.
C23_RenderNeverThrows ==
    (/\ pc = "rendered"
     /\ Includes(RecommendedByType(type, categoricalColumns, numericColumns),
                 selectedColumns)
     /\ \A i \in 1..Len(data) : \A c \in DOMAIN data[i] :
           data[i][c].k \in {"number", "string", "boolean", "null"})
        => ~renderError

\* C26: for a pie selection of two columns over a dataset with rows, the two columns in the opposite
\* order give the same category column, the same value column and the same
\* series.
C26_PieOrderAgnostic ==
    (pc = "rendered" /\ type = "pie" /\ Len(selectedColumns) = 2 /\ Len(data) > 0) =>
        PieComputed(data, type, << selectedColumns[2], selectedColumns[1] >>, columnTypes)
            = pieComputed

-----------------------------------------------------------------------------
(* Properties of the data quality figures *)

\* C22: for a dataset with zero rows the statistics panel reports the
\* completeness of every column as 0, never NaN.
C22_ZeroRowsCompleteness ==
    (pc = "insights" /\ Len(data) = 0) =>
        \A column \in DOMAIN qualityIndicators :
            qualityIndicators[column].completeness = Frac(0, 1)

\* an entry of the report from which a percentage can be derived
Derivable(stats, totalRows) ==
    \/ stats.score.k = "number"
    \/ stats.missing_count.k = "number" /\ totalRows.p > 0
    \/ stats.missing_percentage.k = "number"

\* a number between 0 and 100
IsPercent(x) == x.k = "number" /\ 0 <= x.p /\ x.p <= 100 * x.q

\* C21: for every entry of the completeness report, completePct and
\* missingPct are numbers in [0, 100] whose sum is 100; for an entry from
\* which no percentage can be derived both are 0.
C21_PercentagesSumTo100 ==
    (pc = "quality" /\ dataInfo # Null) =>
        \A col \in DOMAIN normalizedCompleteness :
            LET v == normalizedCompleteness[col]
            IN /\ IsPercent(v.completePct) /\ IsPercent(v.missingPct)
               /\ IsPercent(completenessData[col].completeness)
               /\ IsPercent(completenessData[col].missing)
               /\ IF Derivable(dataInfo.completeness[col], TotalRows(dataInfo))
                  THEN v.missingPct = Minus100(v.completePct)
                  ELSE v.completePct = Ratio(0, 1) /\ v.missingPct = Ratio(0, 1)

\* a rendered report of two columns with an entry that carries no score and
\* a missing_count above the total number of rows: the share is clamped
C21_Witness ==
    /\ pc = "quality" /\ dataInfo # Null
    /\ "region" \in DOMAIN normalizedCompleteness
    /\ dataInfo.completeness["rev"].score.k # "number"
    /\ dataInfo.completeness["rev"].missing_count.k = "number"
    /\ TotalRows(dataInfo).p > 0
    /\ dataInfo.completeness["rev"].missing_count.p > TotalRows(dataInfo).p
    /\ normalizedCompleteness["rev"] = [completePct |-> Ratio(0, 1), missingPct |-> Ratio(100, 1)]

-----------------------------------------------------------------------------
(* Properties of the render gating and of the auto-select effect *)

\* every selected name is a column of the dataset (or the row index)
NamesPresent(sel) ==
    \A i \in 1..Len(sel) :
        sel[i] \in SeqSet(categoricalColumns) \cup SeqSet(numericColumns)
                      \cup {IndexSentinel}

\* the number of columns fits the chart type: bar 1 or 2, scatter 2, pie 1 or 2
ColumnCountFits(t, sel) ==
    CASE t = "bar" -> Len(sel) \in {1, 2}
      [] t = "scatter" -> Len(sel) = 2
      [] t = "pie" -> Len(sel) \in {1, 2}

\* C24: a selection that names a column absent from the dataset, or whose
\* number of columns does not fit the chart type, is not handed to Chart:
\* canRenderSelected is false and the preview is shown.
C24_InvalidSelectionNotCharted ==
    (~NamesPresent(selectedColumns) \/ ~ColumnCountFits(type, selectedColumns)) =>
        (~CanRenderSelected(selectedColumns, type, columnTypes) /\ ~ShowsChart)

\* C25: with an onSelectColumns callback an effect run makes at most one
\* call, and an effect run that follows an effect run makes no call and
\* leaves the selection as it is: between two external events the callback
\* is called at most once.
C25_EffectFixedPoint ==
    [][(hasOnSelect /\ pc' = "effect") =>
          /\ effectCalls' <= 1
          /\ pc = "effect" => (effectCalls' = 0 /\ selectedColumns' = selectedColumns)]_vars

\* C25 witness: the effect has called onSelectColumns with a first
\* recommendation that fails canRenderSelected, and its re-run is scheduled.
C25_Witness ==
    /\ pc = "effect" /\ hasOnSelect /\ effectPending
    /\ effectCalls = 1
    /\ selectedColumns = Recs(type)[1]
    /\ selectedColumns # prevSelected
    /\ ~CanRenderSelected(selectedColumns, type, columnTypes)

-----------------------------------------------------------------------------
(* Properties of the text-to-speech hook *)

\* C27: while the utterance of the last speak call is being spoken,
\* isSpeaking is true and synthRef.current is that utterance.
C27_SpeakingStateCurrent ==
    (Len(utterances) > 0 /\ utterances[Len(utterances)] = "speaking") =>
        (isSpeaking /\ synthRef = Len(utterances))

-----------------------------------------------------------------------------
(* Properties of the dataset upload *)

\* C28: once every upload has been answered successfully, the dataset held
\* (if any) is that of the upload started last; and a response that installs
\* a dataset while none is held belongs to an upload started after every
\* upload already answered, hence after the last clearDataset.
C28_LastUploadWins ==
    [][/\ (/\ InFlight(requests') = {}
           /\ \A r \in 1..Len(requests') : requests'[r] = "success"
           /\ datasetInfo' # 0)
              => datasetInfo' = Len(requests')
       /\ (datasetInfo = 0 /\ datasetInfo' # 0)
              => \A s \in 1..Len(requests) :
                    requests[s] = "success" => s < datasetInfo']_vars

\* C29: isLoading is true whenever an upload request is in flight.
C29_LoadingWhileInFlight ==
    InFlight(requests) # {} => isLoading

====
